---- MODULE Spec2Model ----
(***************************************************************************)
(* Document translator: the document content model, the four format        *)
(* readers, the translation step (TranslatorManager.translate_content and   *)
(* the translators' translate / translate_batch) and the native-preserving  *)
(* writers, modelled from src/src/core/document_parser.py and               *)
(* src/src/core/translator.py.                                              *)
(*                                                                          *)
(* A text is a sequence of one-character strings, so that str.strip(),      *)
(* str.startswith(), str.split() and slicing are computed, not assumed.     *)
(***************************************************************************)
EXTENDS Integers, Sequences, FiniteSets, TLC

VARIABLES
    source,     \* the document on disk that is read
    content,    \* the DocumentContent being built / translated / written
    pc,         \* position of the pipeline for this document
    env,        \* the translation provider of this run and how its service answers
    original,   \* text_content as it was when translate_content was called
    texts,      \* translate_content: texts_to_translate
    results,    \* translate_content: all_results / translation_results
    offset,     \* translate_content: i, the start of the next chunk (0-based)
    calls,      \* the translate_batch calls made so far, each with what it returned
    ncalls,     \* requests sent to the provider's service so far
    sleeps,     \* pauses taken between chunks (time.sleep(1))
    ret,        \* what translate_content returned: "content" or "None"
    output,     \* the file save_document wrote
    saved,      \* what save_document returned: "path" or "None"
    reread,     \* the content read back from the written file
    ui,         \* the main window: its buttons, its file list, its current worker
    workers,    \* the TranslationWorker threads created so far
    inbox,      \* signals emitted by workers that the main window has yet to handle
    parse_log,  \* parse_document's last call: the error it raised and caught, the reader it called
    naming,     \* the output files of one run: its settings, its files, the paths resolved so far
    api_calls,  \* the add_text_block calls a caller made on its own content, in order
    canvas      \* save_as_pdf: the position on the page, the pages, the last line drawn

readVars == <<source, content, pc, parse_log>>
trVars == <<env, original, texts, results, offset, calls, ncalls, sleeps, ret>>
wrVars == <<output, saved, reread>>
runVars == <<ui, workers, inbox>>
outVars == <<naming, api_calls, canvas>>

(***************************************************************************)
(* Bounds of the model.                                                    *)
(***************************************************************************)
MaxItems == 2      \* leaf items (cells, paragraphs, shapes, pages) of a source document
MaxDim == 2        \* rows and columns of a sheet or of a flow-text table
MaxBlocks == 2     \* direct add_text_block calls on one content
NumTables == 2     \* tables of a flow-text source document
NumSlides == 2     \* slides of a slide-deck source document
MaxFrags == 21     \* fragments of a document that is translated
MaxFail == 1       \* requests of one run at which the provider's service fails
MaxFailAt == 12    \* the latest request of a run at which the service may fail
MaxBatch == 2      \* texts of a list handed directly to a translator

(***************************************************************************)
(* Text: Python str operations on sequences of characters.                 *)
(***************************************************************************)
Whitespace == {" ", "\n"}

RECURSIVE LStrip(_)
LStrip(t) ==
    IF t = <<>> THEN <<>>
    ELSE IF Head(t) \in Whitespace THEN LStrip(Tail(t)) ELSE t

RECURSIVE RStrip(_)
RStrip(t) ==
    IF t = <<>> THEN <<>>
    ELSE IF t[Len(t)] \in Whitespace THEN RStrip(SubSeq(t, 1, Len(t) - 1)) ELSE t

\* str.strip()
Strip(t) == RStrip(LStrip(t))

\* str.startswith(c) for a one-character prefix
StartsWith(t, c) == t # <<>> /\ t[1] = c

\* str.endswith(c) for a one-character suffix
EndsWith(t, c) == t # <<>> /\ t[Len(t)] = c

\* sep.join(parts)
RECURSIVE Join(_, _)
Join(parts, sep) ==
    IF parts = <<>> THEN <<>>
    ELSE IF Len(parts) = 1 THEN parts[1]
    ELSE parts[1] \o sep \o Join(Tail(parts), sep)

\* "".join(parts)
Concat(parts) == Join(parts, <<>>)

\* index of the first occurrence of the separator sep in t at or after i, 0 if none
RECURSIVE FindSep(_, _, _)
FindSep(t, sep, i) ==
    IF i + Len(sep) - 1 > Len(t) THEN 0
    ELSE IF SubSeq(t, i, i + Len(sep) - 1) = sep THEN i
    ELSE FindSep(t, sep, i + 1)

\* str.split(sep): the pieces between the occurrences of sep, left to right
RECURSIVE Split(_, _)
Split(t, sep) ==
    LET k == FindSep(t, sep, 1) IN
    IF k = 0 THEN <<t>>
    ELSE <<SubSeq(t, 1, k - 1)>> \o Split(SubSeq(t, k + Len(sep), Len(t)), sep)

(***************************************************************************)
(* DocumentContent (document_parser.py:49-65).                             *)
(***************************************************************************)
\* the empty dict that add_text_block stores for an omitted argument
EmptyMap == <<>>

\* an omitted (None) argument
None == [none |-> TRUE]

\* x or {}
OrEmpty(x) == IF x = None \/ x = EmptyMap THEN EmptyMap ELSE x

\* DocumentContent(): the attributes __init__ sets
DocumentContent ==
    [content_type |-> "", original_format |-> "", text_content |-> <<>>]

\* the None a reader or translate_content returns instead of a content
NoContent ==
    [content_type |-> "None", original_format |-> "", text_content |-> <<>>]

NewContent(ctype, fmt) ==
    [content_type |-> ctype, original_format |-> fmt, text_content |-> <<>>]

\* add_text_block putting the new block in front of the others
add_text_block_InFront(c, text, location_info, formatting) ==
    [c EXCEPT !.text_content =
        <<[text |-> text, location |-> OrEmpty(location_info),
           formatting |-> OrEmpty(formatting)]>> \o @]

\* DocumentContent.add_text_block: appends the block, whatever its text
add_text_block(c, text, location_info, formatting) ==
    [c EXCEPT !.text_content =
        Append(@, [text |-> text, location |-> OrEmpty(location_info),
                   formatting |-> OrEmpty(formatting)])]

(***************************************************************************)
(* Source documents, as the document libraries present them to a reader.   *)
(*   .xlsx  sheets of cells (cell.value, None for an empty cell)           *)
(*   .docx  paragraphs (runs of text) and tables (rows of cells)           *)
(*   .pptx  slides of shapes; a shape may expose text and a text frame     *)
(*   .pdf   pages; extract_text() of a corrupt page raises                 *)
(***************************************************************************)
\* cell.value of an empty cell
NoneValue == <<"None">>

\* str(cell.value) of the non-empty cells
CellValues ==
    { <<"a">>, <<" ", "b", " ">>, <<" ">>, <<"=", "a">>, <<" ", "=", "b">> }

\* cell.text of the non-blank cells of a flow-text table
TableCellTexts == { <<"a">>, <<" ">>, <<"b", " ">> }

\* the runs of a flow-text paragraph
ParagraphRuns ==
    { <<>>, << <<"a">> >>, << <<" ">> >>, << <<"a">>, <<" ">>, <<"b">> >>,
      << <<"b">>, <<"\n">> >> }

\* a cell of an openpyxl worksheet: its font is the workbook default
DefaultFont == [name |-> "Calibri", size |-> "11", bold |-> FALSE, italic |-> FALSE]

SheetNames == <<"S1", "S2">>

GridIndex == (1..MaxDim) \X (1..MaxDim)

\* the subsets of S with at most m elements
RECURSIVE SubsetsUpTo(_, _)
SubsetsUpTo(S, m) ==
    IF m <= 0 THEN {{}}
    ELSE LET smaller == SubsetsUpTo(S, m - 1)
         IN smaller \cup { P \cup {x} : P \in smaller, x \in S }

\* the ways to fill at most m cells of n grids with values, the other cells left out
SparseCells(n, Values, m) ==
    UNION { [P -> Values] : P \in SubsetsUpTo((1..n) \X (1..MaxDim) \X (1..MaxDim), m) }

\* grid i of a sparse filling f, the cells left out holding blank
Grid(f, i, blank) ==
    [p \in GridIndex |->
        IF <<i, p[1], p[2]>> \in DOMAIN f THEN f[<<i, p[1], p[2]>>] ELSE blank]

Sheet(name, nrows, ncols, cell) ==
    [name |-> name, nrows |-> nrows, ncols |-> ncols, cell |-> cell]

ExcelSource(f) ==
    [ext |-> ".xlsx", exists |-> TRUE, readable |-> TRUE,
     sheets |-> [i \in 1..Len(SheetNames) |->
                    Sheet(SheetNames[i], MaxDim, MaxDim, Grid(f, i, NoneValue))]]

\* source is a workbook with at most MaxItems non-empty cells
IsExcelSource(src) ==
    \E f \in SparseCells(Len(SheetNames), CellValues, MaxItems) : src = ExcelSource(f)

Table(nrows, ncols, cell) == [nrows |-> nrows, ncols |-> ncols, cell |-> cell]

\* sequences over S of length n
SeqsOfLen(S, n) == [1..n -> S]

\* sequences over S of length at most n
SeqsUpTo(S, n) == UNION { SeqsOfLen(S, k) : k \in 0..n }

WordSource(ps, f) ==
    [ext |-> ".docx", exists |-> TRUE, readable |-> TRUE,
     paragraphs |-> [i \in 1..Len(ps) |-> [runs |-> ps[i]]],
     tables |-> [i \in 1..NumTables |-> Table(MaxDim, MaxDim, Grid(f, i, <<>>))]]

\* source is a flow-text document with at most MaxItems paragraphs and non-blank cells
IsWordSource(src) ==
    \E np \in 0..MaxItems :
        \E ps \in SeqsOfLen(ParagraphRuns, np),
           f \in SparseCells(NumTables, TableCellTexts, MaxItems - np) :
            src = WordSource(ps, f)

\* a shape of a slide
Shape(has_text, has_text_frame, shape_type, paragraphs) ==
    [has_text |-> has_text, has_text_frame |-> has_text_frame,
     shape_type |-> shape_type, name |-> "shape", paragraphs |-> paragraphs]

Shapes ==
    { Shape(FALSE, FALSE, "PICTURE (13)", <<>>),
      Shape(TRUE, TRUE, "PLACEHOLDER (14)", << [runs |-> << <<"a">> >>] >>),
      Shape(TRUE, TRUE, "TEXT_BOX (17)",
            << [runs |-> << <<"a">> >>], [runs |-> <<>>], [runs |-> << <<"b">> >>] >>),
      Shape(TRUE, TRUE, "TEXT_BOX (17)", << [runs |-> << <<" ">> >>] >>),
      Shape(TRUE, FALSE, "AUTO_SHAPE (1)", << [runs |-> << <<"b">> >>] >>) }

\* the items of xs (a sequence) that slideOf sends to slide s, in order
RECURSIVE SelectSlide(_, _, _)
SelectSlide(xs, slideOf, s) ==
    IF xs = <<>> THEN <<>>
    ELSE (IF Head(slideOf) = s THEN <<Head(xs)>> ELSE <<>>)
         \o SelectSlide(Tail(xs), Tail(slideOf), s)

Monotone(f) == \A i \in DOMAIN f : \A j \in DOMAIN f : i <= j => f[i] <= f[j]

PowerPointSource(shs, slideOf) ==
    [ext |-> ".pptx", exists |-> TRUE, readable |-> TRUE,
     slides |-> [s \in 1..NumSlides |-> SelectSlide(shs, slideOf, s)]]

\* source is a deck of NumSlides slides with at most MaxItems shapes
IsPowerPointSource(src) ==
    \E k \in 0..MaxItems :
        \E shs \in SeqsOfLen(Shapes, k),
           slideOf \in { g \in SeqsOfLen(1..NumSlides, k) : Monotone(g) } :
            src = PowerPointSource(shs, slideOf)

\* a page: ok = FALSE when extract_text() raises
Pages ==
    { [ok |-> FALSE, text |-> <<>>],
      [ok |-> TRUE, text |-> <<>>],
      [ok |-> TRUE, text |-> <<"a">>],
      [ok |-> TRUE, text |-> <<"a", "\n", "\n", "b", " ">>],
      [ok |-> TRUE, text |-> <<" ", "\n", "\n", " ">>],
      [ok |-> TRUE, text |-> <<"a", "\n", "\n", " ", "\n", "\n", "b">>] }

PdfSource(pgs) == [ext |-> ".pdf", exists |-> TRUE, readable |-> TRUE, pages |-> pgs]

\* source is a fixed-page document of at most MaxItems pages
IsPdfSource(src) == \E pgs \in SeqsUpTo(Pages, MaxItems) : src = PdfSource(pgs)

(***************************************************************************)
(* The readers (document_parser.py:102-308).                               *)
(***************************************************************************)
\* the item (sheet, paragraph, slide, page object) at which the format library
\* raises inside the reader's loop, after the items before it were read; 0 when
\* it never does
fail_at(src) == IF "fail_at" \in DOMAIN src THEN src.fail_at ELSE 0

\* the reader's loop raises before it ends
LoopRaises(src, items) == fail_at(src) \in 1..Len(items)

\* the guard with the prefix test made on the untrimmed value
ExcelCellAccepted_RawPrefix(value) ==
    /\ value # NoneValue
    /\ Strip(value) # <<>>
    /\ ~StartsWith(value, "=")

\* parse_excel, lines 119-122: the cell becomes a fragment
ExcelCellAccepted(value) ==
    /\ value # NoneValue
    /\ Strip(value) # <<>>
    /\ ~StartsWith(Strip(value), "=")

\* parse_excel, lines 117-137: the cells of one sheet from cell k on, row-major
RECURSIVE excel_cells(_, _, _)
excel_cells(c, sheet, k) ==
    IF k > sheet.nrows * sheet.ncols THEN c
    ELSE LET row == ((k - 1) \div sheet.ncols) + 1
             column == ((k - 1) % sheet.ncols) + 1
             value == sheet.cell[<<row, column>>]
             location_info == [sheet |-> sheet.name, row |-> row, column |-> column,
                               coordinate |-> <<column, row>>]
             formatting == [font_name |-> DefaultFont.name,
                            font_size |-> DefaultFont.size,
                            font_bold |-> DefaultFont.bold,
                            font_italic |-> DefaultFont.italic]
         IN excel_cells(IF ExcelCellAccepted(value)
                        THEN add_text_block(c, Strip(value), location_info, formatting)
                        ELSE c,
                        sheet, k + 1)

RECURSIVE excel_sheets(_, _, _)
excel_sheets(c, sheets, s) ==
    IF s > Len(sheets) THEN c
    ELSE excel_sheets(excel_cells(c, sheets[s], 1), sheets, s + 1)

\* parse_excel returning what it had collected when the loop raised
parse_excel_Partial(src) ==
    IF ~src.readable THEN NoContent
    ELSE IF LoopRaises(src, src.sheets)
    THEN excel_sheets(NewContent("excel", ".xlsx"),
                      SubSeq(src.sheets, 1, fail_at(src) - 1), 1)
    ELSE excel_sheets(NewContent("excel", ".xlsx"), src.sheets, 1)

\* parse_excel, lines 107-144: an exception anywhere ends in None
parse_excel(src) ==
    IF ~src.readable THEN NoContent
    ELSE IF LoopRaises(src, src.sheets) THEN NoContent
    ELSE excel_sheets(NewContent("excel", ".xlsx"), src.sheets, 1)

\* paragraph.text: the runs' texts joined
ParagraphText(paragraph) == Concat(paragraph.runs)

RunFormatting ==
    [font_name |-> "None", font_size |-> "None", bold |-> "None", italic |-> "None"]

\* parse_word, lines 171-183: the runs kept in formatting['runs']
RECURSIVE word_runs(_)
word_runs(runs) ==
    IF runs = <<>> THEN <<>>
    ELSE (IF Strip(Head(runs)) # <<>>
          THEN << [text |-> Head(runs), formatting |-> RunFormatting] >>
          ELSE <<>>) \o word_runs(Tail(runs))

\* the guard without strip()
WordParagraphAccepted_NoStrip(paragraph) == ParagraphText(paragraph) # <<>>

\* parse_word, line 159: the paragraph becomes a fragment
WordParagraphAccepted(paragraph) == Strip(ParagraphText(paragraph)) # <<>>

\* parse_word, lines 158-185
RECURSIVE word_paragraphs(_, _, _)
word_paragraphs(c, paragraphs, i) ==
    IF i > Len(paragraphs) THEN c
    ELSE LET paragraph == paragraphs[i]
             location_info == [paragraph_index |-> i - 1, style |-> "Normal"]
             formatting == [alignment |-> "None", runs |-> word_runs(paragraph.runs)]
         IN word_paragraphs(IF WordParagraphAccepted(paragraph)
                            THEN add_text_block(c, ParagraphText(paragraph),
                                                location_info, formatting)
                            ELSE c,
                            paragraphs, i + 1)

\* parse_word, lines 189-199: the cells of one table from cell k on, row-major
RECURSIVE word_cells(_, _, _, _)
word_cells(c, table, table_idx, k) ==
    IF k > table.nrows * table.ncols THEN c
    ELSE LET row == ((k - 1) \div table.ncols) + 1
             col == ((k - 1) % table.ncols) + 1
             text == table.cell[<<row, col>>]
             location_info == [table_index |-> table_idx, row_index |-> row - 1,
                               cell_index |-> col - 1, element_type |-> "table_cell"]
         IN word_cells(IF Strip(text) # <<>>
                       THEN add_text_block(c, Strip(text), location_info, None)
                       ELSE c,
                       table, table_idx, k + 1)

RECURSIVE word_tables(_, _, _)
word_tables(c, tables, t) ==
    IF t > Len(tables) THEN c
    ELSE word_tables(word_cells(c, tables[t], t - 1, 1), tables, t + 1)

parse_word(src) ==
    IF ~src.readable THEN NoContent
    ELSE IF LoopRaises(src, src.paragraphs) THEN NoContent
    ELSE word_tables(word_paragraphs(NewContent("word", ".docx"), src.paragraphs, 1),
                     src.tables, 1)

\* the texts of a sequence of paragraphs
ParagraphTexts(paragraphs) == [i \in 1..Len(paragraphs) |-> ParagraphText(paragraphs[i])]

\* shape.text: the paragraphs of the shape joined by line feeds
ShapeText(shape) == Join(ParagraphTexts(shape.paragraphs), <<"\n">>)

\* parse_powerpoint, lines 246-257: the runs kept in para_formatting['runs']
ppt_runs(runs) == word_runs(runs)

\* parse_powerpoint, lines 235-259: the paragraphs of a text frame from i on
RECURSIVE ppt_paragraphs(_, _, _, _)
ppt_paragraphs(c, paragraphs, location_info, i) ==
    IF i > Len(paragraphs) THEN c
    ELSE LET paragraph == paragraphs[i]
             para_location == [slide_index |-> location_info.slide_index,
                               shape_index |-> location_info.shape_index,
                               shape_type |-> location_info.shape_type,
                               paragraph_index |-> i - 1]
             para_formatting == [alignment |-> "None", level |-> 0,
                                 runs |-> ppt_runs(paragraph.runs)]
         IN ppt_paragraphs(IF Strip(ParagraphText(paragraph)) # <<>>
                           THEN add_text_block(c, ParagraphText(paragraph),
                                               para_location, para_formatting)
                           ELSE c,
                           paragraphs, location_info, i + 1)

\* parse_powerpoint, lines 220-261: the shapes of one slide from shape k on
RECURSIVE ppt_shapes(_, _, _, _)
ppt_shapes(c, shapes, slide_idx, k) ==
    IF k > Len(shapes) THEN c
    ELSE LET shape == shapes[k]
             location_info == [slide_index |-> slide_idx, shape_index |-> k - 1,
                               shape_type |-> shape.shape_type]
             formatting == [shape_name |-> shape.name]
         IN ppt_shapes(IF shape.has_text /\ Strip(ShapeText(shape)) # <<>>
                       THEN IF shape.has_text_frame
                            THEN ppt_paragraphs(c, shape.paragraphs, location_info, 1)
                            ELSE add_text_block(c, ShapeText(shape), location_info,
                                                formatting)
                       ELSE c,
                       shapes, slide_idx, k + 1)

RECURSIVE ppt_slides(_, _, _)
ppt_slides(c, slides, s) ==
    IF s > Len(slides) THEN c
    ELSE ppt_slides(ppt_shapes(c, slides[s], s - 1, 1), slides, s + 1)

parse_powerpoint(src) ==
    IF ~src.readable THEN NoContent
    ELSE IF LoopRaises(src, src.slides) THEN NoContent
    ELSE ppt_slides(NewContent("powerpoint", ".pptx"), src.slides, 1)

\* parse_pdf, lines 292-298: the chunks of one page from chunk i on
RECURSIVE pdf_paragraphs(_, _, _, _)
pdf_paragraphs(c, paragraphs, page_number, i) ==
    IF i > Len(paragraphs) THEN c
    ELSE LET para_location == [page_number |-> page_number,
                               element_type |-> "page_text",
                               paragraph_index |-> i - 1]
         IN pdf_paragraphs(IF Strip(paragraphs[i]) # <<>>
                           THEN add_text_block(c, Strip(paragraphs[i]), para_location,
                                               None)
                           ELSE c,
                           paragraphs, page_number, i + 1)

\* parse_pdf, lines 282-302: the pages from page p on; a page that raises is skipped
RECURSIVE pdf_pages(_, _, _)
pdf_pages(c, pages, p) ==
    IF p > Len(pages) THEN c
    ELSE pdf_pages(IF pages[p].ok /\ Strip(pages[p].text) # <<>>
                   THEN pdf_paragraphs(c, Split(pages[p].text, <<"\n", "\n">>), p, 1)
                   ELSE c,
                   pages, p + 1)

\* parse_pdf, lines 274-308: a page whose extraction raises is skipped (lines
\* 283-302); an exception outside that inner try ends in None
parse_pdf(src) ==
    IF ~src.readable THEN NoContent
    ELSE IF LoopRaises(src, src.pages) THEN NoContent
    ELSE pdf_pages(NewContent("pdf", ".pdf"), src.pages, 1)

supported_formats == {".xlsx", ".docx", ".pptx", ".pdf"}

\* str.lower() on the extensions of the model's files
lower(ext) ==
    CASE ext = ".XLSX" -> ".xlsx"
      [] ext = ".Docx" -> ".docx"
      [] ext = ".TXT" -> ".txt"
      [] OTHER -> ext

\* os.path.splitext(file_path)[1].lower()
file_extension(src) == lower(src.ext)

\* no call of parse_document yet
NoLog == [error |-> "", reader |-> ""]

\* parse_document with the extension tested before the existence of the file
parse_document_ExtensionFirst(src) ==
    IF file_extension(src) \notin supported_formats
    THEN [result |-> NoContent, error |-> "ValueError", reader |-> ""]
    ELSE IF ~src.exists
    THEN [result |-> NoContent, error |-> "FileNotFoundError", reader |-> ""]
    ELSE CASE file_extension(src) = ".xlsx" ->
                [result |-> parse_excel(src), error |-> "", reader |-> "parse_excel"]
           [] file_extension(src) = ".docx" ->
                [result |-> parse_word(src), error |-> "", reader |-> "parse_word"]
           [] file_extension(src) = ".pptx" ->
                [result |-> parse_powerpoint(src), error |-> "",
                 reader |-> "parse_powerpoint"]
           [] file_extension(src) = ".pdf" ->
                [result |-> parse_pdf(src), error |-> "", reader |-> "parse_pdf"]

\* DocumentParser.parse_document, lines 77-100: what it returns, the exception its
\* own checks raised (caught at line 98), and the reader it called
parse_document_call(src) ==
    IF ~src.exists
    THEN [result |-> NoContent, error |-> "FileNotFoundError", reader |-> ""]
    ELSE IF file_extension(src) \notin supported_formats
    THEN [result |-> NoContent, error |-> "ValueError", reader |-> ""]
    ELSE CASE file_extension(src) = ".xlsx" ->
                [result |-> parse_excel(src), error |-> "", reader |-> "parse_excel"]
           [] file_extension(src) = ".docx" ->
                [result |-> parse_word(src), error |-> "", reader |-> "parse_word"]
           [] file_extension(src) = ".pptx" ->
                [result |-> parse_powerpoint(src), error |-> "",
                 reader |-> "parse_powerpoint"]
           [] file_extension(src) = ".pdf" ->
                [result |-> parse_pdf(src), error |-> "", reader |-> "parse_pdf"]
           [] OTHER ->
                [result |-> NoContent, error |-> "ValueError", reader |-> ""]

\* DocumentParser.parse_document: every exception ends in None
parse_document(src) == parse_document_call(src).result

\* what parse_document leaves in the log
parse_document_log(src) ==
    [error |-> parse_document_call(src).error, reader |-> parse_document_call(src).reader]


(***************************************************************************)
(* The native-preserving writers (document_parser.py:310-511). What a      *)
(* writer saves is described as the document a reader would open.          *)
(***************************************************************************)
\* no file at the path
NoFile == [ext |-> "", exists |-> FALSE, readable |-> FALSE]

\* dict.get(key, default)
Get(m, key, default) == IF key \in DOMAIN m THEN m[key] ELSE default

\* the keys of a dict filled from xs, in insertion order
RECURSIVE Keys(_, _)
Keys(xs, seen) ==
    IF xs = <<>> THEN <<>>
    ELSE IF Head(xs) \in seen THEN Keys(Tail(xs), seen)
    ELSE <<Head(xs)>> \o Keys(Tail(xs), seen \cup {Head(xs)})

MaxOf(S) == CHOOSE m \in S : \A x \in S : x <= m

\* sorted(S)
RECURSIVE Sorted(_)
Sorted(S) ==
    IF S = {} THEN <<>>
    ELSE LET m == CHOOSE x \in S : \A y \in S : x <= y
         IN <<m>> \o Sorted(S \ {m})

\* the blocks of a sequence whose index is in I, in order
RECURSIVE Pick(_, _, _)
Pick(blocks, I, i) ==
    IF i > Len(blocks) THEN <<>>
    ELSE (IF i \in I THEN <<blocks[i]>> ELSE <<>>) \o Pick(blocks, I, i + 1)

\* save_as_excel_original, lines 336-365: one sheet per sheet name, each block's
\* text at its row and column; a later block on the same cell overwrites
ExcelSheetWritten(blocks, sheet_name) ==
    LET InSheet == { i \in DOMAIN blocks :
                       Get(blocks[i].location, "sheet", "Sheet1") = sheet_name }
        RowOf(i) == Get(blocks[i].location, "row", 1)
        ColOf(i) == Get(blocks[i].location, "column", 1)
        At(r, c) == { i \in InSheet : RowOf(i) = r /\ ColOf(i) = c }
        nrows == MaxOf({ RowOf(i) : i \in InSheet })
        ncols == MaxOf({ ColOf(i) : i \in InSheet })
    IN Sheet(sheet_name, nrows, ncols,
             [p \in (1..nrows) \X (1..ncols) |->
                 IF At(p[1], p[2]) # {} THEN blocks[MaxOf(At(p[1], p[2]))].text
                 ELSE NoneValue])

\* DocumentParser.save_as_excel_original; a workbook left without sheets does
\* not save and the exception handler returns None
save_as_excel_original(c) ==
    LET blocks == c.text_content
        names == Keys([i \in DOMAIN blocks |->
                          Get(blocks[i].location, "sheet", "Sheet1")], {})
    IN IF names = <<>> THEN NoFile
       ELSE [ext |-> ".xlsx", exists |-> TRUE, readable |-> TRUE,
             sheets |-> [k \in DOMAIN names |-> ExcelSheetWritten(blocks, names[k])]]

\* save_as_word_original, lines 390-395: the table-cell blocks
IsTableCell(block) == Get(block.location, "element_type", "") = "table_cell"

\* list.sort(key=paragraph_index) is stable: b goes behind the blocks whose key
\* is not larger
RECURSIVE InsertByKey(_, _)
InsertByKey(sorted, b) ==
    IF sorted = <<>> THEN <<b>>
    ELSE IF Get(Head(sorted).location, "paragraph_index", 0)
              <= Get(b.location, "paragraph_index", 0)
         THEN <<Head(sorted)>> \o InsertByKey(Tail(sorted), b)
         ELSE <<b>> \o sorted

RECURSIVE SortByParagraphIndex(_)
SortByParagraphIndex(blocks) ==
    IF blocks = <<>> THEN <<>>
    ELSE InsertByKey(SortByParagraphIndex(SubSeq(blocks, 1, Len(blocks) - 1)),
                     blocks[Len(blocks)])

\* save_as_word_original, lines 403-421: the runs written for one paragraph block
WordRunsWritten(block) ==
    LET runs == Get(block.formatting, "runs", <<>>)
    IN IF runs # <<>> THEN [k \in DOMAIN runs |-> runs[k].text]
       ELSE <<block.text>>

\* save_as_word_original, lines 426-445: the table written for one table index
WordTableWritten(cells, table_idx) ==
    LET InTable == { i \in DOMAIN cells :
                       Get(cells[i].location, "table_index", 0) = table_idx }
        RowOf(i) == Get(cells[i].location, "row_index", 0)
        ColOf(i) == Get(cells[i].location, "cell_index", 0)
        rows == { RowOf(i) : i \in InTable }
        CellsOf(r) == { ColOf(i) : i \in { j \in InTable : RowOf(j) = r } }
        \* lines 439-440: len(table_rows) rows, and as many columns as the
        \* fullest row has cells
        size == [nrows |-> Cardinality(rows),
                 ncols |-> MaxOf({ Cardinality(CellsOf(r)) : r \in rows })]
        At(r, c) == { i \in InTable : RowOf(i) = r /\ ColOf(i) = c }
    IN Table(size.nrows, size.ncols,
             [p \in (1..size.nrows) \X (1..size.ncols) |->
                 IF At(p[1] - 1, p[2] - 1) # {}
                 THEN cells[MaxOf(At(p[1] - 1, p[2] - 1))].text
                 ELSE <<>>])

\* DocumentParser.save_as_word_original
save_as_word_original(c) ==
    LET blocks == c.text_content
        tables == Pick(blocks, { i \in DOMAIN blocks : IsTableCell(blocks[i]) }, 1)
        paragraphs == SortByParagraphIndex(
                         Pick(blocks, { i \in DOMAIN blocks : ~IsTableCell(blocks[i]) }, 1))
        table_idxs == Keys([i \in DOMAIN tables |->
                               Get(tables[i].location, "table_index", 0)], {})
    IN [ext |-> ".docx", exists |-> TRUE, readable |-> TRUE,
        paragraphs |-> [k \in DOMAIN paragraphs |-> [runs |-> WordRunsWritten(paragraphs[k])]],
        tables |-> [k \in DOMAIN table_idxs |-> WordTableWritten(tables, table_idxs[k])]]

\* a paragraph holding text as its one run; an empty paragraph has no run
ParagraphOf(text) == [runs |-> IF text = <<>> THEN <<>> ELSE <<text>>]

\* shape.text = text: one paragraph per line of text
TextParagraphs(text) ==
    LET parts == Split(text, <<"\n">>)
    IN [k \in DOMAIN parts |-> ParagraphOf(parts[k])]

\* a placeholder of the slide layout
Placeholder(paragraphs) == Shape(TRUE, TRUE, "PLACEHOLDER (14)", paragraphs)

\* save_as_powerpoint_original, lines 475-504: the slide added for one slide
\* index, on layout 1 (a title and a content placeholder)
SlideWritten(blocks, slide_idx) ==
    LET group == Pick(blocks, { i \in DOMAIN blocks :
                                  Get(blocks[i].location, "slide_index", 0) = slide_idx }, 1)
        IsTitle(i) == Get(group[i].location, "shape_index", 0) = 0
        title_blocks == Pick(group, { i \in DOMAIN group : IsTitle(i) }, 1)
        content_blocks == Pick(group, { i \in DOMAIN group : ~IsTitle(i) }, 1)
    IN << Placeholder(IF title_blocks # <<>> THEN TextParagraphs(title_blocks[1].text)
                      ELSE <<ParagraphOf(<<>>)>>),
          Placeholder(<<ParagraphOf(<<>>)>>
                      \o [k \in DOMAIN content_blocks |->
                             ParagraphOf(content_blocks[k].text)]) >>

\* DocumentParser.save_as_powerpoint_original
save_as_powerpoint_original(c) ==
    LET blocks == c.text_content
        slide_idxs == Sorted({ Get(blocks[i].location, "slide_index", 0) :
                                 i \in DOMAIN blocks })
    IN [ext |-> ".pptx", exists |-> TRUE, readable |-> TRUE,
        slides |-> [k \in DOMAIN slide_idxs |-> SlideWritten(blocks, slide_idxs[k])]]

\* save_as_pdf, lines 546-584: the lines drawn, for texts that fit the page width
RECURSIVE DrawnLines(_, _)
DrawnLines(blocks, i) ==
    IF i > Len(blocks) THEN <<>>
    ELSE Split(blocks[i].text, <<"\n">>) \o DrawnLines(blocks, i + 1)

\* DocumentParser.save_as_pdf_original
save_as_pdf_original(c) ==
    [ext |-> ".pdf", exists |-> TRUE, readable |-> TRUE,
     drawn |-> DrawnLines(c.text_content, 1)]

\* DocumentParser.save_document: the file written, NoFile when it returns None
save_document(c, original_format) ==
    CASE original_format = ".xlsx" -> save_as_excel_original(c)
      [] original_format = ".docx" -> save_as_word_original(c)
      [] original_format = ".pptx" -> save_as_powerpoint_original(c)
      [] original_format = ".pdf" -> save_as_pdf_original(c)
      [] OTHER -> NoFile

(***************************************************************************)
(* The provider's service (the network call of translator.py:123-131,      *)
(* 190-198, 302-306), seen through a deterministic double: env.kind is the *)
(* transform it applies, env.fail the requests at which it raises, and     *)
(* env.lines whether a combined response carries every numbered line.      *)
(***************************************************************************)
RECURSIVE Reverse(_)
Reverse(t) == IF t = <<>> THEN <<>> ELSE Append(Reverse(Tail(t)), Head(t))

MapChar(c) == CASE c = "a" -> "x" [] c = "b" -> "y" [] c = "A" -> "X" [] OTHER -> c

\* the translation the service gives for one text
Transform(kind, t) ==
    CASE kind = "echo" -> t
      [] kind = "reverse" -> Reverse(t)
      [] kind = "map" -> [i \in 1..Len(t) |-> MapChar(t[i])]
      [] kind = "quotes" -> <<"\"", "\"">>

\* the line "[k] translation" of a combined response
NumberedLine(kind, k, t) == <<"[", ToString(k), "]", " ">> \o Transform(kind, t)

\* the labels of the lines of a combined response for n texts, in the order of
\* the lines: all of them, the last one missing, the first one missing, the
\* first one twice, or all of them from the last to the first
ResponseLabels(lines, n) ==
    CASE lines = "short" -> [k \in 1..(n - 1) |-> k]
      [] lines = "skip" -> [k \in 1..(n - 1) |-> k + 1]
      [] lines = "twice" -> <<1>> \o [k \in 1..n |-> k]
      [] lines = "reversed" -> [k \in 1..n |-> n + 1 - k]
      [] OTHER -> [k \in 1..n |-> k]

\* the service's answer to a combined request for the texts ts
CombinedResponse(e, ts) ==
    LET labels == ResponseLabels(e.lines, Len(ts))
    IN Join([j \in 1..Len(labels) |-> NumberedLine(e.kind, labels[j], ts[labels[j]])],
            <<"\n">>)

(***************************************************************************)
(* The translators (translator.py:35-386).                                 *)
(***************************************************************************)
\* TranslationResult(success=True, translated_text=..., original_text=...)
Success(translated_text, original_text) ==
    [success |-> TRUE, translated_text |-> translated_text,
     error_message |-> "", original_text |-> original_text]

\* TranslationResult(success=False, error_message=..., original_text=...)
Failure(error_message, original_text) ==
    [success |-> FALSE, translated_text |-> <<>>,
     error_message |-> error_message, original_text |-> original_text]

LowerChar(c) == CASE c = "A" -> "a" [] c = "X" -> "x" [] OTHER -> c

\* str.lower()
Lower(t) == [i \in 1..Len(t) |-> LowerChar(t[i])]

\* OpenAITranslator._post_process_translation
post_process_translation(translated_text, original_text) ==
    LET unquoted == IF StartsWith(translated_text, "\"") /\ EndsWith(translated_text, "\"")
                    THEN SubSeq(translated_text, 2, Len(translated_text) - 1)
                    ELSE translated_text
    IN IF Lower(unquoted) = Lower(original_text) THEN original_text ELSE unquoted

\* OpenAITranslator.translate; request is the number of the service request it sends
openai_translate(e, text, request) ==
    IF Strip(text) = <<>> THEN Success(<<>>, text)
    ELSE IF request \in e.fail THEN Failure("OpenAI", text)
    ELSE Success(post_process_translation(Strip(Transform(e.kind, text)), text), text)

\* GoogleTranslateAPI.translate
google_translate(e, text, request) ==
    IF Strip(text) = <<>> THEN Success(<<>>, text)
    ELSE IF request \in e.fail THEN Failure("Google", text)
    ELSE Success(Transform(e.kind, text), text)

\* self.translate of the current translator
translate(e, text, request) ==
    IF e.provider = "OpenAI GPT-4" THEN openai_translate(e, text, request)
    ELSE google_translate(e, text, request)

\* the service requests a translate call on text sends
RequestsOf(text) == IF Strip(text) = <<>> THEN 0 ELSE 1

\* BaseTranslator.translate_batch: one translate call per text, in order
RECURSIVE base_translate_batch(_, _, _)
base_translate_batch(e, ts, request) ==
    IF ts = <<>> THEN <<>>
    ELSE <<translate(e, Head(ts), request)>>
         \o base_translate_batch(e, Tail(ts), request + RequestsOf(Head(ts)))

\* index (1-based) of the first occurrence of c in t, 0 if none
RECURSIVE Find(_, _, _)
Find(t, c, i) ==
    IF i > Len(t) THEN 0 ELSE IF t[i] = c THEN i ELSE Find(t, c, i + 1)

\* _parse_batch_response, lines 239-246: what one line adds to results
ParseLine(raw) ==
    LET line == Strip(raw)
        bracket_end == Find(line, "]", 1) - 1
    IN IF StartsWith(line, "[") /\ Find(line, "]", 1) > 0 /\ bracket_end > 0
       THEN << Strip(SubSeq(line, bracket_end + 2, Len(line))) >>
       ELSE <<>>

RECURSIVE ParseLines(_)
ParseLines(lines) ==
    IF lines = <<>> THEN <<>> ELSE ParseLine(Head(lines)) \o ParseLines(Tail(lines))

\* results padded with "" up to expected_count (lines 251-252)
PadResults(rs, expected_count) ==
    rs \o [i \in 1..(expected_count - Len(rs)) |-> <<>>]

\* OpenAITranslator._parse_batch_response
parse_batch_response(response_text, expected_count) ==
    SubSeq(PadResults(ParseLines(Split(response_text, <<"\n">>)), expected_count),
           1, expected_count)

\* the indices of the texts that are not empty after trimming (line 170)
RECURSIVE FilteredIndices(_, _)
FilteredIndices(ts, i) ==
    IF i > Len(ts) THEN <<>>
    ELSE (IF Strip(ts[i]) # <<>> THEN <<i>> ELSE <<>>) \o FilteredIndices(ts, i + 1)

\* OpenAITranslator._translate_batch_combined
translate_batch_combined(e, ts, request) ==
    LET filtered == FilteredIndices(ts, 1)
        response_text ==
            Strip(CombinedResponse(e, [k \in 1..Len(filtered) |-> ts[filtered[k]]]))
        translated_results == parse_batch_response(response_text, Len(filtered))
        PositionOf(i) == CHOOSE k \in 1..Len(filtered) : filtered[k] = i
    IN IF ts = <<>> THEN <<>>
       ELSE IF filtered = <<>> THEN [i \in 1..Len(ts) |-> Success(<<>>, ts[i])]
       ELSE IF request \in e.fail
            THEN [i \in 1..Len(ts) |-> Failure("OpenAI batch", ts[i])]
       ELSE [i \in 1..Len(ts) |->
                IF \E k \in 1..Len(filtered) : filtered[k] = i
                THEN IF PositionOf(i) <= Len(translated_results)
                     THEN Success(translated_results[PositionOf(i)], ts[i])
                     ELSE Failure("batch parse", ts[i])
                ELSE Success(<<>>, ts[i])]

\* texts up to which OpenAITranslator.translate_batch sends one combined request
CombinedLimit == 5

\* translate_batch of the current translator
translate_batch(e, ts, request) ==
    IF e.provider = "OpenAI GPT-4" /\ Len(ts) <= CombinedLimit
    THEN translate_batch_combined(e, ts, request)
    ELSE base_translate_batch(e, ts, request)

\* the service requests translate_batch sends for ts
RECURSIVE CountRequests(_)
CountRequests(ts) ==
    IF ts = <<>> THEN 0 ELSE RequestsOf(Head(ts)) + CountRequests(Tail(ts))

BatchRequests(e, ts) ==
    IF e.provider = "OpenAI GPT-4" /\ Len(ts) <= CombinedLimit
    THEN (IF CountRequests(ts) > 0 THEN 1 ELSE 0)
    ELSE CountRequests(ts)

\* TranslatorManager.initialize_translator
initialize_translator(e) ==
    IF e.provider = "OpenAI GPT-4" THEN e.key
    ELSE e.provider \in {"Google Translate", "Google Cloud Translate"}

(***************************************************************************)
(* TranslatorManager.translate_content (translator.py:427-492).            *)
(***************************************************************************)
\* lines 440-445
texts_to_translate(c) ==
    [i \in 1..Len(c.text_content) |->
        IF Strip(c.text_content[i].text) # <<>> THEN c.text_content[i].text ELSE <<>>]

\* chunk_size = 10 (line 456)
chunk_size == 10

\* len(texts_to_translate) > 10 (line 454)
ChunkThreshold == 10

Min(a, b) == IF a <= b THEN a ELSE b

\* every chunk taken from the start of the list
ChunkAt_FromStart(ts, i) == SubSeq(ts, 1, Min(chunk_size, Len(ts)))

\* texts_to_translate[i:i + chunk_size]
ChunkAt(ts, i) == SubSeq(ts, i + 1, Min(i + chunk_size, Len(ts)))

\* the chunk's results put in front of the earlier ones
ExtendResults_Prepend(all_results, chunk_results) == chunk_results \o all_results

\* all_results.extend(chunk_results)
ExtendResults(all_results, chunk_results) == all_results \o chunk_results

\* the result's text stored whatever its success flag
ApplyResult_IgnoreSuccess(block, result) == [block EXCEPT !.text = result.translated_text]

\* the block's run data cleared along with its text
ApplyResult_ClearRuns(block, result) ==
    IF result.success
    THEN [block EXCEPT !.text = result.translated_text, !.formatting = EmptyMap]
    ELSE block

\* lines 478-482: block i after result i has been applied
ApplyResult(block, result) ==
    IF result.success THEN [block EXCEPT !.text = result.translated_text] ELSE block

\* lines 477-484: the results applied index by index
ApplyResults(c, rs) ==
    [c EXCEPT !.text_content =
        [i \in 1..Len(c.text_content) |->
            IF i <= Len(rs) THEN ApplyResult(c.text_content[i], rs[i])
            ELSE c.text_content[i]]]

\* a count that needs two successes to be positive
SuccessCount_LessOne(c, rs) ==
    LET n == Cardinality({ i \in 1..Len(rs) : i <= Len(c.text_content) /\ rs[i].success })
    IN IF n > 0 THEN n - 1 ELSE 0

\* success_count of lines 477-482
SuccessCount(c, rs) ==
    Cardinality({ i \in 1..Len(rs) : i <= Len(c.text_content) /\ rs[i].success })

\* translate_content, lines 430-449: up to the first translate_batch call
TC_Begin ==
    /\ pc = "parsed" /\ content # NoContent
    /\ original' = content.text_content
    /\ IF ~initialize_translator(env)
       THEN /\ ret' = "None" /\ pc' = "translated"
            /\ UNCHANGED <<texts, results>>
       ELSE /\ texts' = texts_to_translate(content)
            /\ results' = <<>>
            /\ IF texts_to_translate(content) = <<>>
               THEN ret' = "content" /\ pc' = "translated"
               ELSE ret' = "pending" /\ pc' = "batch"
    /\ offset' = 0
    /\ UNCHANGED <<outVars, runVars, wrVars, parse_log, source, content, env, calls, ncalls, sleeps>>

\* translate_content, lines 454-474: one translate_batch call, on the next chunk
\* when there are more than 10 texts and on all the texts otherwise
TC_Batch ==
    /\ pc = "batch"
    /\ LET chunk == IF Len(texts) > ChunkThreshold THEN ChunkAt(texts, offset) ELSE texts
           chunk_results == translate_batch(env, chunk, ncalls + 1)
           more == Len(texts) > ChunkThreshold /\ offset + chunk_size < Len(texts)
       IN /\ results' = ExtendResults(results, chunk_results)
          /\ calls' = Append(calls, [first |-> offset, texts |-> chunk,
                                     results |-> chunk_results, sleeps |-> sleeps])
          /\ ncalls' = ncalls + BatchRequests(env, chunk)
          /\ offset' = IF Len(texts) > ChunkThreshold THEN offset + chunk_size ELSE offset
          /\ sleeps' = IF more THEN sleeps + 1 ELSE sleeps
          /\ pc' = IF more THEN "batch" ELSE "apply"
    /\ UNCHANGED <<outVars, runVars, wrVars, parse_log, source, content, env, original, texts, ret>>

\* translate_content, lines 476-488: the results are applied and the call returns
TC_Apply ==
    /\ pc = "apply"
    /\ content' = ApplyResults(content, results)
    /\ ret' = IF SuccessCount(content, results) > 0 THEN "content" ELSE "None"
    /\ pc' = "translated"
    /\ UNCHANGED <<outVars, runVars, wrVars, parse_log, source, env, original, texts, results, offset, calls, ncalls, sleeps>>

(***************************************************************************)
(* Reading: one document is read by parse_document, or a content is built  *)
(* by direct add_text_block calls (as tests/test_document_parser.py does). *)
(***************************************************************************)
\* no file: the content is built by the caller
NoSource == NoFile

\* files parse_document turns down, and files the format library cannot open
BadSources ==
    { [ext |-> ".xlsx", exists |-> FALSE, readable |-> FALSE],
      [ext |-> ".txt", exists |-> TRUE, readable |-> TRUE],
      [ext |-> ".TXT", exists |-> TRUE, readable |-> TRUE],
      [ext |-> "", exists |-> TRUE, readable |-> TRUE],
      [ext |-> ".txt", exists |-> FALSE, readable |-> FALSE],
      [ext |-> ".Docx", exists |-> FALSE, readable |-> FALSE],
      [ext |-> ".xlsx", exists |-> TRUE, readable |-> FALSE, sheets |-> <<>>],
      [ext |-> ".docx", exists |-> TRUE, readable |-> FALSE,
       paragraphs |-> <<>>, tables |-> <<>>],
      [ext |-> ".pptx", exists |-> TRUE, readable |-> FALSE, slides |-> <<>>],
      [ext |-> ".pdf", exists |-> TRUE, readable |-> FALSE, pages |-> <<>>] }

\* source is a document that opens and whose reading raises part-way, outside
\* any page's extraction
IsBrokenSource(src) ==
    \/ \E f \in SparseCells(Len(SheetNames), CellValues, 1), k \in 1..Len(SheetNames) :
          src = ExcelSource(f) @@ ("fail_at" :> k)
    \/ \E ps \in SeqsOfLen(ParagraphRuns, 2),
          f \in SparseCells(NumTables, TableCellTexts, 0) :
          src = WordSource(ps, f) @@ ("fail_at" :> 2)
    \/ \E shs \in SeqsOfLen(Shapes, 1) :
          src = PowerPointSource(shs, <<1>>) @@ ("fail_at" :> 2)
    \/ \E pgs \in SeqsOfLen(Pages, 2) :
          src = PdfSource(pgs) @@ ("fail_at" :> 2)

\* source is a readable document whose extension is written in capitals
IsUpperCaseSource(src) ==
    \/ \E f \in SparseCells(Len(SheetNames), CellValues, 1) :
          src = [ExcelSource(f) EXCEPT !.ext = ".XLSX"]
    \/ \E ps \in SeqsOfLen(ParagraphRuns, 1),
          f \in SparseCells(NumTables, TableCellTexts, 0) :
          src = [WordSource(ps, f) EXCEPT !.ext = ".Docx"]

\* the arguments of the direct add_text_block calls
ApiTexts == { <<"a">>, <<" ">>, <<>>, <<"b", " ">> }
ApiLocations == { None, [page |-> 1, line |-> 1] }
ApiFormattings == { None, [font |-> "Arial", size |-> 12] }

\* no run has been started from the main window
RunIdle ==
    /\ ui = [start_enabled |-> TRUE, cancel_enabled |-> FALSE,
             selected_files |-> <<>>, translation_worker |-> 0]
    /\ workers = <<>>
    /\ inbox = <<>>

\* no output file is being named
OutIdle == naming = <<>> /\ api_calls = <<>> /\ canvas = <<>>

\* nothing has been written
WrIdle ==
    /\ output = NoSource
    /\ saved = "pending"
    /\ reread = NoContent

\* the translation step has not run
TrIdle ==
    /\ env = [provider |-> "", kind |-> "", fail |-> {}, lines |-> "", key |-> FALSE]
    /\ original = <<>>
    /\ texts = <<>>
    /\ results = <<>>
    /\ offset = 0
    /\ calls = <<>>
    /\ ncalls = 0
    /\ sleeps = 0
    /\ ret = "pending"

InitRead ==
    /\ TrIdle
    /\ WrIdle
    /\ RunIdle
    /\ \/ IsExcelSource(source)
       \/ IsWordSource(source)
       \/ IsPowerPointSource(source)
       \/ IsPdfSource(source)
       \/ IsUpperCaseSource(source)
       \/ IsBrokenSource(source)
       \/ source \in BadSources \cup {NoSource}
    /\ content = NoContent
    /\ parse_log = NoLog
    /\ OutIdle
    /\ pc = "start"

ParseExcel ==
    /\ pc = "start" /\ source.exists /\ file_extension(source) = ".xlsx"
    /\ content' = parse_document(source)
    /\ parse_log' = parse_document_log(source)
    /\ pc' = "parsed"
    /\ UNCHANGED <<outVars, runVars, wrVars, source, trVars>>

ParseWord ==
    /\ pc = "start" /\ source.exists /\ file_extension(source) = ".docx"
    /\ content' = parse_document(source)
    /\ parse_log' = parse_document_log(source)
    /\ pc' = "parsed"
    /\ UNCHANGED <<outVars, runVars, wrVars, source, trVars>>

ParsePowerpoint ==
    /\ pc = "start" /\ source.exists /\ file_extension(source) = ".pptx"
    /\ content' = parse_document(source)
    /\ parse_log' = parse_document_log(source)
    /\ pc' = "parsed"
    /\ UNCHANGED <<outVars, runVars, wrVars, source, trVars>>

ParsePdf ==
    /\ pc = "start" /\ source.exists /\ file_extension(source) = ".pdf"
    /\ content' = parse_document(source)
    /\ parse_log' = parse_document_log(source)
    /\ pc' = "parsed"
    /\ UNCHANGED <<outVars, runVars, wrVars, source, trVars>>

\* parse_document on a missing file or an unsupported extension
ParseRejected ==
    /\ pc = "start" /\ source # NoSource
    /\ ~source.exists \/ file_extension(source) \notin supported_formats
    /\ content' = parse_document(source)
    /\ parse_log' = parse_document_log(source)
    /\ pc' = "parsed"
    /\ UNCHANGED <<outVars, runVars, wrVars, source, trVars>>

\* content = DocumentContent()
CreateContent ==
    /\ pc = "start" /\ source = NoSource
    /\ content' = DocumentContent
    /\ pc' = "api"
    /\ UNCHANGED <<outVars, runVars, wrVars, parse_log, source, trVars>>

\* content.add_text_block(text, location_info, formatting)
AddTextBlock ==
    /\ pc = "api"
    /\ Len(content.text_content) < MaxBlocks
    /\ \E text \in ApiTexts, location_info \in ApiLocations, formatting \in ApiFormattings :
          /\ content' = add_text_block(content, text, location_info, formatting)
          /\ api_calls' = Append(api_calls, [text |-> text,
                                             location_info |-> location_info,
                                             formatting |-> formatting])
    /\ UNCHANGED <<naming, canvas, runVars, wrVars, parse_log, source, pc, trVars>>

NextRead ==
    \/ ParseExcel
    \/ ParseWord
    \/ ParsePowerpoint
    \/ ParsePdf
    \/ ParseRejected
    \/ CreateContent
    \/ AddTextBlock

vars == <<readVars, trVars, wrVars, runVars, outVars>>

SpecRead == InitRead /\ [][NextRead]_vars

(***************************************************************************)
(* Translation: a document of up to MaxFrags fragments is read and then    *)
(* translated by translate_content with the provider env.                  *)
(***************************************************************************)
\* the paragraph texts of the documents that are translated
TrTexts == << <<"a">>, <<"b", "a">>, <<"a", " ", "b">>, <<"\"", "a", "\"">> >>

\* a flow-text document of n one-run paragraphs
LongSource(n, shift) ==
    WordSource([i \in 1..n |-> << TrTexts[((i - 1 + shift) % Len(TrTexts)) + 1] >>], <<>>)

\* where in TrTexts the first paragraph of a document is taken from
TrShifts == {0, 3}

TrKinds == {"map", "quotes"}

Provider(provider, kind, fail, lines, key) ==
    [provider |-> provider, kind |-> kind, fail |-> fail, lines |-> lines, key |-> key]

\* the providers of a run: the two translators with a working or failing
\* service, a missing API key and an unknown provider name
TrEnvs ==
    { Provider("OpenAI GPT-4", k, F, l, TRUE) :
        k \in TrKinds, F \in SubsetsUpTo(1..MaxFailAt, MaxFail), l \in {"all", "short"} }
    \cup { Provider("Google Translate", k, F, "all", FALSE) :
             k \in TrKinds, F \in SubsetsUpTo(1..MaxFailAt, MaxFail) }
    \cup { Provider("OpenAI GPT-4", "map", {}, "all", FALSE),
           Provider("Unknown", "map", {}, "all", FALSE) }

Init ==
    /\ \E n \in 1..MaxFrags, shift \in TrShifts : source = LongSource(n, shift)
    /\ content = NoContent
    /\ parse_log = NoLog
    /\ OutIdle
    /\ pc = "start"
    /\ env \in TrEnvs
    /\ original = <<>>
    /\ texts = <<>>
    /\ results = <<>>
    /\ offset = 0
    /\ calls = <<>>
    /\ ncalls = 0
    /\ sleeps = 0
    /\ ret = "pending"
    /\ WrIdle
    /\ RunIdle

Next ==
    \/ ParseWord
    \/ TC_Begin
    \/ TC_Batch
    \/ TC_Apply

Spec == Init /\ [][Next]_vars

Fragments == content.text_content


(***************************************************************************)
(* Claims about reading.                                                   *)
(***************************************************************************)
NonEmptyTexts(c) ==
    \A i \in DOMAIN c.text_content : Strip(c.text_content[i].text) # <<>>

\* C7: add_text_block rejects a text that is empty after trimming, so no
\* sequence of add_text_block calls puts a trimmed-empty fragment into the
\* content.
C7_AddRejectsEmptyText == pc = "api" => NonEmptyTexts(content)

\* every call made so far had a text that is non-empty after trimming
NonEmptyCalls == \A i \in DOMAIN api_calls : Strip(api_calls[i].text) # <<>>

\* the block that a call stands for: its text, and its location and formatting
\* or an empty mapping where the argument was omitted
BlockOfCall(call) ==
    [text |-> call.text,
     location |-> IF call.location_info = None THEN <<>> ELSE call.location_info,
     formatting |-> IF call.formatting = None THEN <<>> ELSE call.formatting]

\* C23: after any sequence of add_text_block calls with texts that are
\* non-empty after trimming, text_content is exactly the blocks of the calls
\* in call order, block i holding the i-th call's text, location and
\* formatting (an empty mapping for an omitted one); earlier blocks are never
\* altered or reordered.
C23_AppendSemantics ==
    (pc = "api" /\ NonEmptyCalls) =>
        /\ Len(content.text_content) = Len(api_calls)
        /\ \A i \in DOMAIN api_calls : content.text_content[i] = BlockOfCall(api_calls[i])

\* two calls with different texts were made, the second with its location and
\* formatting omitted
C23_Witness ==
    /\ pc = "api" /\ NonEmptyCalls
    /\ Len(api_calls) = 2
    /\ api_calls[1].text # api_calls[2].text
    /\ api_calls[1].location_info # None
    /\ api_calls[2].location_info = None /\ api_calls[2].formatting = None
    /\ content.text_content[2].location = <<>>

\* C8: the content a reader returns holds no fragment whose text is empty
\* after trimming, whatever the source document and its format.
C8_EmptyFragmentExclusion == pc = "parsed" => NonEmptyTexts(content)

\* a flow-text document with a whitespace-only paragraph was read, and fragments came out
C8_Witness ==
    /\ pc = "parsed" /\ source.ext = ".docx" /\ source.exists /\ source.readable
    /\ \E i \in DOMAIN source.paragraphs :
          /\ ParagraphText(source.paragraphs[i]) # <<>>
          /\ Strip(ParagraphText(source.paragraphs[i])) = <<>>
    /\ Len(Fragments) >= 1

\* the cells <<sheet, row, column>> of a workbook
WorkbookCells(src) ==
    UNION { { <<s, r, c>> : r \in 1..src.sheets[s].nrows, c \in 1..src.sheets[s].ncols } :
            s \in DOMAIN src.sheets }

CellValue(src, p) == src.sheets[p[1]].cell[<<p[2], p[3]>>]

\* the cell's value, as text, starts with '=' once leading whitespace is trimmed
IsFormulaCell(value) == value # NoneValue /\ StartsWith(LStrip(value), "=")

IsNonEmptyCell(value) == value # NoneValue /\ Strip(value) # <<>>

\* the fragments located at cell p
FragmentsAtCell(c, src, p) ==
    { i \in DOMAIN c.text_content :
        /\ c.text_content[i].location.sheet = src.sheets[p[1]].name
        /\ c.text_content[i].location.row = p[2]
        /\ c.text_content[i].location.column = p[3] }

\* C9: in parse_excel a cell whose value starts with '=' (also after leading
\* whitespace) produces no fragment, no fragment text begins with '=', and
\* every other non-empty cell produces exactly one fragment.
C9_FormulaExclusion ==
    (pc = "parsed" /\ source.ext = ".xlsx" /\ source.exists /\ source.readable
        /\ fail_at(source) = 0) =>
        /\ \A i \in DOMAIN Fragments : ~StartsWith(Fragments[i].text, "=")
        /\ \A p \in WorkbookCells(source) :
              Cardinality(FragmentsAtCell(content, source, p)) =
                 IF IsNonEmptyCell(CellValue(source, p))
                    /\ ~IsFormulaCell(CellValue(source, p))
                 THEN 1 ELSE 0
        /\ Len(Fragments) =
              Cardinality({ p \in WorkbookCells(source) :
                              /\ IsNonEmptyCell(CellValue(source, p))
                              /\ ~IsFormulaCell(CellValue(source, p)) })

\* a workbook with a formula cell behind leading whitespace and a text cell was read
C9_Witness ==
    /\ pc = "parsed" /\ source.ext = ".xlsx" /\ source.exists /\ source.readable
    /\ \E p \in WorkbookCells(source) :
          IsFormulaCell(CellValue(source, p)) /\ CellValue(source, p)[1] = " "
    /\ Len(Fragments) >= 1

\* C20: parse_document always returns: a missing file ends in None with the
\* FileNotFoundError of the existence check, whatever its extension; an existing
\* file whose lower-cased extension is not .xlsx, .docx, .pptx or .pdf ends in
\* None with the ValueError of the extension check; no reader is called in
\* either case, and a file with a supported extension in capitals is not
\* turned down.
C20_ReaderFailureModes ==
    (pc = "parsed" /\ source # NoSource) =>
        /\ ~source.exists =>
              /\ content = NoContent
              /\ parse_log = [error |-> "FileNotFoundError", reader |-> ""]
        /\ (source.exists
              /\ lower(source.ext) \notin {".xlsx", ".docx", ".pptx", ".pdf"}) =>
              /\ content = NoContent
              /\ parse_log = [error |-> "ValueError", reader |-> ""]
        /\ (source.exists
              /\ lower(source.ext) \in {".xlsx", ".docx", ".pptx", ".pdf"}) =>
              /\ parse_log.error = ""
              /\ parse_log.reader # ""

\* a missing file with an unsupported extension was turned down
C20_Witness ==
    /\ pc = "parsed"
    /\ source = [ext |-> ".txt", exists |-> FALSE, readable |-> FALSE]
    /\ content = NoContent
    /\ parse_log.error = "FileNotFoundError"

\* an existing file with an unsupported extension in capitals was turned down
C20_WitnessUnsupported ==
    /\ pc = "parsed"
    /\ source = [ext |-> ".TXT", exists |-> TRUE, readable |-> TRUE]
    /\ content = NoContent
    /\ parse_log.error = "ValueError"

\* the reader gave up on the document: it would not open, or reading it raised
\* outside a page's extraction
ReaderFailed(src) == ~src.readable \/ fail_at(src) > 0

\* the blocks of c that carry page number p, in order
PageBlocks(c, p) == SelectSeq(c.text_content, LAMBDA b : b.location.page_number = p)

\* the trimmed non-blank chunks of a page text, in order
PageChunks(text) ==
    LET kept == SelectSeq(Split(text, <<"\n", "\n">>), LAMBDA x : Strip(x) # <<>>)
    IN [i \in 1..Len(kept) |-> Strip(kept[i])]

\* the page numbers of the blocks never decrease
InPageOrder(c) ==
    \A i \in 1..Len(c.text_content) : \A j \in i..Len(c.text_content) :
        c.text_content[i].location.page_number <= c.text_content[j].location.page_number

\* C21: a reader that fails outside a single page's extraction returns no
\* content at all, never the fragments collected so far; parse_pdf drops
\* exactly the pages whose extraction raised and returns the chunks of every
\* other page in page order, each tagged with its own 1-based page number.
C21_NoPartialContent ==
    (pc = "parsed" /\ source # NoSource /\ source.exists
        /\ file_extension(source) \in supported_formats) =>
        /\ ReaderFailed(source) => content = NoContent
        /\ (~ReaderFailed(source) /\ file_extension(source) = ".pdf") =>
              /\ content # NoContent
              /\ InPageOrder(content)
              /\ \A i \in 1..Len(content.text_content) :
                    content.text_content[i].location.page_number
                        \in 1..Len(source.pages)
              /\ \A p \in 1..Len(source.pages) :
                    [i \in 1..Len(PageBlocks(content, p)) |->
                        PageBlocks(content, p)[i].text]
                    = IF source.pages[p].ok THEN PageChunks(source.pages[p].text)
                      ELSE <<>>

\* a page that raised was skipped and the page after it was read under its own number
C21_Witness ==
    /\ pc = "parsed" /\ file_extension(source) = ".pdf" /\ ~ReaderFailed(source)
    /\ Len(source.pages) = 2
    /\ ~source.pages[1].ok
    /\ Len(content.text_content) = 2
    /\ content.text_content[1].location.page_number = 2

\* a workbook whose second sheet raised after the first gave a fragment
C21_WitnessAborted ==
    /\ pc = "parsed" /\ file_extension(source) = ".xlsx" /\ fail_at(source) = 2
    /\ excel_sheets(NewContent("excel", ".xlsx"), SubSeq(source.sheets, 1, 1), 1)
           .text_content # <<>>
    /\ content = NoContent


(***************************************************************************)
(* Writing: a tabular, flow-text or slide-deck document is read, written   *)
(* back by save_document as it is or after translate_content, and the      *)
(* written file is read again.                                             *)
(***************************************************************************)
WriteEnvs ==
    { Provider("Google Translate", "map", {}, "all", FALSE),
      Provider("Google Translate", "map", {1}, "all", FALSE),
      Provider("OpenAI GPT-4", "map", {}, "all", TRUE) }

InitWrite ==
    /\ \/ IsExcelSource(source)
       \/ IsWordSource(source)
       \/ IsPowerPointSource(source)
    /\ content = NoContent
    /\ parse_log = NoLog
    /\ OutIdle
    /\ pc = "start"
    /\ env \in WriteEnvs
    /\ original = <<>>
    /\ texts = <<>>
    /\ results = <<>>
    /\ offset = 0
    /\ calls = <<>>
    /\ ncalls = 0
    /\ sleeps = 0
    /\ ret = "pending"
    /\ WrIdle
    /\ RunIdle

\* save_document(content, output_path, content.original_format), on the content
\* as read or on the content translate_content returned
SaveDocument ==
    /\ \/ pc = "parsed" /\ content # NoContent
       \/ pc = "translated" /\ ret = "content"
    /\ output' = save_document(content, content.original_format)
    /\ saved' = IF save_document(content, content.original_format) = NoFile
                THEN "None" ELSE "path"
    /\ pc' = "saved"
    /\ UNCHANGED <<outVars, runVars, parse_log, source, content, trVars, reread>>

\* parse_document(output_path)
Reparse ==
    /\ pc = "saved" /\ saved = "path"
    /\ reread' = parse_document(output)
    /\ parse_log' = parse_document_log(output)
    /\ pc' = "reread"
    /\ UNCHANGED <<outVars, runVars, source, content, trVars, output, saved>>

NextWrite ==
    \/ ParseExcel
    \/ ParseWord
    \/ ParsePowerpoint
    \/ TC_Begin
    \/ TC_Batch
    \/ TC_Apply
    \/ SaveDocument
    \/ Reparse

SpecWrite == InitWrite /\ [][NextWrite]_vars

(***************************************************************************)
(* The two batch paths of OpenAITranslator, called directly on one list of *)
(* texts with the same deterministic double as provider.                   *)
(***************************************************************************)
BatchTexts ==
    { <<"a">>, <<"a", "b">>, <<"\"", "a", "\"">>, <<"\"">>, <<"a", "\n", "b">>,
      <<" ", "a">>, <<"A", "a">>, <<" ">>, <<>> }

BatchEnvs ==
    { Provider("OpenAI GPT-4", k, F, l, TRUE) :
        k \in {"echo", "reverse"}, F \in {{}, {1}},
        l \in {"all", "short", "skip", "twice", "reversed"} }

InitBatch ==
    /\ source = NoSource
    /\ content = NoContent
    /\ parse_log = NoLog
    /\ OutIdle
    /\ pc = "direct"
    /\ env \in BatchEnvs
    /\ original = <<>>
    /\ texts \in SeqsUpTo(BatchTexts, MaxBatch)
    /\ results = <<>>
    /\ offset = 0
    /\ calls = <<>>
    /\ ncalls = 0
    /\ sleeps = 0
    /\ ret = "pending"
    /\ WrIdle
    /\ RunIdle

Called(path) == \E k \in DOMAIN calls : calls[k].path = path

\* translator._translate_batch_combined(texts, ...)
CallCombined ==
    /\ pc = "direct" /\ ~Called("combined")
    /\ calls' = Append(calls, [path |-> "combined", texts |-> texts,
                               results |-> translate_batch_combined(env, texts, 1)])
    /\ UNCHANGED <<outVars, runVars, wrVars, parse_log, source, content, pc, env, original, texts, results, offset,
                   ncalls, sleeps, ret>>

\* BaseTranslator.translate_batch(translator, texts, ...): translate, text by text
CallIndividual ==
    /\ pc = "direct" /\ ~Called("individual")
    /\ calls' = Append(calls, [path |-> "individual", texts |-> texts,
                               results |-> base_translate_batch(env, texts, 1)])
    /\ UNCHANGED <<outVars, runVars, wrVars, parse_log, source, content, pc, env, original, texts, results, offset,
                   ncalls, sleeps, ret>>

NextBatch ==
    \/ CallCombined
    \/ CallIndividual

SpecBatch == InitBatch /\ [][NextBatch]_vars

ResultsOf(path) == calls[CHOOSE k \in DOMAIN calls : calls[k].path = path].results

\* C10: batch/individual equivalence. For a list of non-empty texts and a
\* deterministic echo or reverse provider that answers every request, the
\* combined single-request path and the text-by-text path give, index by
\* index, the same success flag and the same translated text.
C10_BatchIndividualEquivalence ==
    ( /\ Called("combined") /\ Called("individual")
      /\ env.fail = {} /\ env.lines = "all"
      /\ \A i \in DOMAIN texts : Strip(texts[i]) # <<>> ) =>
        /\ Len(ResultsOf("combined")) = Len(ResultsOf("individual"))
        /\ \A i \in DOMAIN texts :
              /\ ResultsOf("combined")[i].success = ResultsOf("individual")[i].success
              /\ ResultsOf("combined")[i].translated_text =
                    ResultsOf("individual")[i].translated_text

\* C11: on the combined-request path and on the item-by-item path alike,
\* translate_batch returns one result per input text, in input order, and every
\* input text that is empty after trimming gets a result with success = true
\* and an empty translated_text, whatever happens to the other texts of the
\* batch.
C11_BatchContract ==
    \A k \in DOMAIN calls :
        /\ Len(calls[k].results) = Len(calls[k].texts)
        /\ \A i \in DOMAIN calls[k].texts :
              /\ calls[k].results[i].original_text = calls[k].texts[i]
              /\ Strip(calls[k].texts[i]) = <<>> =>
                    /\ calls[k].results[i].success
                    /\ calls[k].results[i].translated_text = <<>>

\* the texts of a call that are not empty after trimming, in order
NonEmptyOf(ts) == [k \in 1..Len(FilteredIndices(ts, 1)) |-> ts[FilteredIndices(ts, 1)[k]]]

\* what the line labelled [k] of the response carries for the k-th non-empty text
LabelledTranslation(e, text) == Strip(Split(Transform(e.kind, text), <<"\n">>)[1])

\* C24: on the combined path the translation returned under label [k] is stored
\* only on the k-th non-empty text: whenever a non-empty text gets a
\* successful, non-empty translation, it is the one the response carries under
\* that text's own label, also when the response omits a labelled line, repeats
\* one or lists them out of order.
C24_LabelFaithfulMapping ==
    \A c \in DOMAIN calls :
        (calls[c].path = "combined" /\ env.fail = {}) =>
            \A k \in 1..Len(FilteredIndices(calls[c].texts, 1)) :
                LET i == FilteredIndices(calls[c].texts, 1)[k]
                    result == calls[c].results[i]
                IN (result.success /\ result.translated_text # <<>>) =>
                      /\ \E j \in DOMAIN ResponseLabels(env.lines,
                                                         Len(NonEmptyOf(calls[c].texts))) :
                            ResponseLabels(env.lines, Len(NonEmptyOf(calls[c].texts)))[j] = k
                      /\ result.translated_text = LabelledTranslation(env, calls[c].texts[i])

\* the mapping is faithful when the response carries every label once, in order
C24_InOrder ==
    \A c \in DOMAIN calls :
        (calls[c].path = "combined" /\ env.fail = {} /\ env.lines = "all") =>
            \A k \in 1..Len(FilteredIndices(calls[c].texts, 1)) :
                LET i == FilteredIndices(calls[c].texts, 1)[k]
                IN calls[c].results[i].translated_text
                      = LabelledTranslation(env, calls[c].texts[i])

(***************************************************************************)
(* Claims about the translation step.                                      *)
(***************************************************************************)
\* the translate_batch call that carries fragment i, and i's index in that call
CallOf(i) == IF Len(original) > chunk_size THEN ((i - 1) \div chunk_size) + 1 ELSE 1
IndexInCall(i) == IF Len(original) > chunk_size THEN ((i - 1) % chunk_size) + 1 ELSE i

\* the translator reported success for every text it was given
AllSucceeded ==
    \A k \in DOMAIN calls : \A j \in DOMAIN calls[k].results : calls[k].results[j].success

\* the service answers every request and, in a combined response, every numbered line
FaithfulService == env.provider = "Google Translate" \/ env.lines = "all"

\* what the translators make of the service's translation of the one-line text t
TranslationsOf(e, t) ==
    IF e.provider = "Google Translate" THEN { Transform(e.kind, t) }
    ELSE { Strip(Transform(e.kind, t)),
           post_process_translation(Strip(Transform(e.kind, t)), t) }

\* C1: order preservation. When the translator succeeds on every text, the
\* content translate_content returns has as many fragments as before, in the
\* same order and at the same locations, and fragment i holds the translation
\* that the translator produced for fragment i's original text, also when the
\* texts went out as several chunks of 10.
C1_OrderPreservation ==
    (pc = "translated" /\ ret = "content" /\ original # <<>> /\ AllSucceeded) =>
        /\ Len(Fragments) = Len(original)
        /\ \A i \in DOMAIN original :
              /\ Fragments[i].location = original[i].location
              /\ CallOf(i) \in DOMAIN calls
              /\ IndexInCall(i) \in DOMAIN calls[CallOf(i)].results
              /\ calls[CallOf(i)].texts[IndexInCall(i)] = original[i].text
              /\ calls[CallOf(i)].results[IndexInCall(i)].original_text = original[i].text
              /\ Fragments[i].text = calls[CallOf(i)].results[IndexInCall(i)].translated_text
              /\ FaithfulService => Fragments[i].text \in TranslationsOf(env, original[i].text)

\* more than 10 fragments were translated in chunks, all with success
C1_Witness ==
    /\ pc = "translated" /\ ret = "content" /\ AllSucceeded
    /\ Len(original) > chunk_size /\ Len(calls) >= 2
    /\ \A i \in DOMAIN original : Fragments[i].text # original[i].text

SomeFailed == \E i \in DOMAIN results : ~results[i].success
SomeSucceeded == \E i \in DOMAIN results : results[i].success

\* C3: partial-failure tolerance. When the translator reports failure for some
\* fragments and success for at least one, translate_content returns the
\* content, every failed fragment keeps its original text and every other
\* fragment holds its translation.
C3_PartialFailureTolerance ==
    (pc = "translated" /\ SomeFailed /\ SomeSucceeded) =>
        /\ ret = "content"
        /\ Len(results) = Len(original)
        /\ Len(Fragments) = Len(original)
        /\ \A i \in DOMAIN original :
              /\ results[i].original_text = original[i].text
              /\ IF results[i].success
                 THEN /\ Fragments[i].text = results[i].translated_text
                      /\ FaithfulService =>
                            Fragments[i].text \in TranslationsOf(env, original[i].text)
                 ELSE Fragments[i].text = original[i].text

\* one fragment failed, its neighbours were translated
C3_Witness ==
    /\ pc = "translated" /\ ret = "content"
    /\ \E i \in DOMAIN results :
          /\ ~results[i].success /\ Fragments[i].text = original[i].text
          /\ \E j \in DOMAIN results :
                results[j].success /\ Fragments[j].text # original[j].text

\* C4: in every state of a Document Content, after reading and after the
\* translation step has overwritten texts, every fragment's text is non-empty
\* after trimming.
C4_NonEmptyTextInvariant ==
    pc \in {"parsed", "batch", "apply", "translated"} => NonEmptyTexts(content)


(***************************************************************************)
(* Claims about writing.                                                   *)
(***************************************************************************)
\* a file was written from a content of the given format
Written(fmt) ==
    pc \in {"saved", "reread"} /\ saved = "path" /\ content.original_format = fmt

\* the paragraph fragments of the content, and the place of fragment i among
\* them (a content that was read lists them by ascending paragraph index,
\* which is the order the writer emits them in)
ParagraphFragments == { i \in DOMAIN Fragments : ~IsTableCell(Fragments[i]) }
ParagraphRank(i) == Cardinality({ j \in ParagraphFragments : j <= i })

\* the slide written for slide index s is the one at s's rank among the indices
SlideIndices == { Fragments[i].location.slide_index : i \in DOMAIN Fragments }
SlideRank(s) == Cardinality({ x \in SlideIndices : x <= s })

\* C2: the text a native-preserving writer emits for a fragment is the
\* fragment's current text (its translation, or its original where the
\* translation failed): the cell a tabular fragment names holds it, the
\* paragraph written for a flow-text paragraph fragment reads as it, also when
\* the fragment carries run data, and the slide written for a slide-deck
\* fragment shows it as the title or as a body paragraph.
C2_WrittenTextIsCurrentText ==
    /\ Written(".xlsx") =>
          \A i \in DOMAIN Fragments :
             \E k \in DOMAIN output.sheets :
                /\ output.sheets[k].name = Fragments[i].location.sheet
                /\ Fragments[i].location.row <= output.sheets[k].nrows
                /\ Fragments[i].location.column <= output.sheets[k].ncols
                /\ output.sheets[k].cell[<<Fragments[i].location.row,
                                          Fragments[i].location.column>>]
                      = Fragments[i].text
    /\ Written(".docx") =>
          /\ Len(output.paragraphs) = Cardinality(ParagraphFragments)
          /\ \A i \in ParagraphFragments :
                ParagraphText(output.paragraphs[ParagraphRank(i)]) = Fragments[i].text
    /\ Written(".pptx") =>
          \A i \in DOMAIN Fragments :
             LET k == SlideRank(Fragments[i].location.slide_index)
             IN /\ k \in DOMAIN output.slides
                /\ \/ ShapeText(output.slides[k][1]) = Fragments[i].text
                   \/ \E q \in DOMAIN output.slides[k][2].paragraphs :
                         ParagraphText(output.slides[k][2].paragraphs[q])
                            = Fragments[i].text

\* the table-cell fragments of the content and their table indices
CellFragments == { i \in DOMAIN Fragments : IsTableCell(Fragments[i]) }
TableIndices == { Fragments[i].location.table_index : i \in CellFragments }
TableRank(t) == Cardinality({ x \in TableIndices : x <= t })
CellsOfTable(t) == { i \in CellFragments : Fragments[i].location.table_index = t }

\* C5: for every table index, the table save_as_word_original writes has
\* (max row index + 1) rows and (max cell index + 1) columns over that table's
\* fragments, every fragment's text stands at its (row index, cell index), and
\* the cells without a fragment are blank.
C5_GridReconstruction ==
    Written(".docx") =>
        /\ Len(output.tables) = Cardinality(TableIndices)
        /\ \A t \in TableIndices :
              LET table == output.tables[TableRank(t)]
                  RowOf(i) == Fragments[i].location.row_index
                  ColOf(i) == Fragments[i].location.cell_index
              IN /\ table.nrows = MaxOf({ RowOf(i) : i \in CellsOfTable(t) }) + 1
                 /\ table.ncols = MaxOf({ ColOf(i) : i \in CellsOfTable(t) }) + 1
                 /\ \A i \in CellsOfTable(t) :
                       /\ RowOf(i) < table.nrows /\ ColOf(i) < table.ncols
                       /\ table.cell[<<RowOf(i) + 1, ColOf(i) + 1>>] = Fragments[i].text
                 /\ \A r \in 1..table.nrows, c \in 1..table.ncols :
                       (~\E i \in CellsOfTable(t) : RowOf(i) = r - 1 /\ ColOf(i) = c - 1)
                          => table.cell[<<r, c>>] = <<>>

\* the fragments of slide index s: those of shape index 0, and the others
TitleFragments(s) ==
    { i \in DOMAIN Fragments : /\ Fragments[i].location.slide_index = s
                               /\ Fragments[i].location.shape_index = 0 }
BodyFragments(s) ==
    { i \in DOMAIN Fragments : /\ Fragments[i].location.slide_index = s
                               /\ Fragments[i].location.shape_index # 0 }

\* the paragraphs added to the content placeholder of a written slide, after
\* the paragraph that clearing the text frame leaves
BodyWritten(slide) == ParagraphTexts(Tail(slide[2].paragraphs))

\* C25: save_as_powerpoint_original writes one slide per distinct slide index,
\* in ascending slide-index order, and on each slide every fragment of the
\* group is either the title (a fragment of shape index 0) or one body
\* paragraph, the body paragraphs in fragment order: no fragment is absent
\* from the output.
C25_SlideWriterLosesNothing ==
    Written(".pptx") =>
        /\ Len(output.slides) = Cardinality(SlideIndices)
        /\ \A s \in SlideIndices :
              LET slide == output.slides[SlideRank(s)]
                  body == Pick(Fragments, BodyFragments(s), 1)
              IN /\ \A i \in TitleFragments(s) :
                       ShapeText(slide[1]) = Fragments[i].text
                 /\ BodyWritten(slide) = [k \in DOMAIN body |-> body[k].text]

\* with at most one fragment of shape index 0 on every slide nothing is lost
C25_OneTitlePerSlide ==
    (Written(".pptx") /\ \A s \in SlideIndices : Cardinality(TitleFragments(s)) <= 1) =>
        /\ Len(output.slides) = Cardinality(SlideIndices)
        /\ \A s \in SlideIndices :
              LET slide == output.slides[SlideRank(s)]
                  body == Pick(Fragments, BodyFragments(s), 1)
              IN /\ \A i \in TitleFragments(s) :
                       ShapeText(slide[1]) = Fragments[i].text
                 /\ BodyWritten(slide) = [k \in DOMAIN body |-> body[k].text]

\* the set of (location, text) pairs of a content
Pairs(c) ==
    { <<c.text_content[i].location, c.text_content[i].text>> : i \in DOMAIN c.text_content }

\* C6: round trip on untranslated content. Reading a tabular, flow-text or
\* slide-deck document, writing the unmodified content with save_document and
\* reading the written file again yields the same set of (location, text)
\* pairs as the first read.
C6_RoundTripUntranslated ==
    (pc = "reread" /\ ret = "pending") =>
        /\ reread # NoContent
        /\ Pairs(reread) = Pairs(content)


(***************************************************************************)
(* Claims about the batching of translate_content.                         *)
(***************************************************************************)
\* translate_content has got past initialisation with texts to translate
Batching == pc \in {"batch", "apply", "translated"} /\ texts # <<>>

\* the translate_batch calls are over
BatchingDone == pc \in {"apply", "translated"} /\ texts # <<>>

\* ceil(n / chunk_size)
Chunks(n) == (n + chunk_size - 1) \div chunk_size

\* C12: batching policy. With n > 10 fragments translate_content calls
\* translate_batch ceil(n/10) times, on the consecutive slices [0..9],
\* [10..19], ... in that order, one pause before each chunk but the first and
\* none after the last; with n <= 10 it calls translate_batch once with all n
\* texts and never pauses; in both cases the concatenated results have length n.
C12_BatchingPolicy ==
    LET n == Len(texts)
    IN /\ Batching =>
            \A k \in DOMAIN calls :
               IF n > 10
               THEN /\ k <= Chunks(n)
                    /\ calls[k].first = (k - 1) * 10
                    /\ calls[k].texts = SubSeq(texts, (k - 1) * 10 + 1, Min(k * 10, n))
                    /\ Len(calls[k].texts) = IF k < Chunks(n) THEN 10 ELSE n - (k - 1) * 10
                    /\ calls[k].sleeps = k - 1
               ELSE /\ k = 1
                    /\ calls[k].texts = texts
                    /\ calls[k].sleeps = 0
       /\ BatchingDone =>
            /\ Len(calls) = IF n > 10 THEN Chunks(n) ELSE 1
            /\ sleeps = Len(calls) - 1
            /\ Len(results) = n

\* the texts went out as two full chunks and a shorter last one, with a pause
\* before the second and the third
C12_Witness ==
    /\ BatchingDone /\ Len(texts) > 10
    /\ Len(calls) = Chunks(Len(texts)) /\ Len(calls) >= 3
    /\ Len(calls[Len(calls)].texts) < 10
    /\ sleeps = Len(calls) - 1


\* c2 is c1 with, at most, other texts in its fragments
SameButTexts(c1, c2) ==
    /\ c2.content_type = c1.content_type
    /\ c2.original_format = c1.original_format
    /\ Len(c2.text_content) = Len(c1.text_content)
    /\ \A i \in DOMAIN c1.text_content :
          /\ c2.text_content[i].location = c1.text_content[i].location
          /\ c2.text_content[i].formatting = c1.text_content[i].formatting

\* a step taken inside translate_content changes texts only
TranslationStepFrame ==
    (pc \in {"parsed", "batch", "apply"}) => SameButTexts(content, content')

\* C13: frame of the translation step. Every step of translate_content leaves
\* content_type, original_format, the number and order of the fragments and
\* every fragment's location and formatting as they were; only text fields
\* change, whether the translation succeeds, partly fails or wholly fails.
C13_TranslationFrame == [][TranslationStepFrame]_vars

\* translate_content has returned, with a fragment that kept its run data
\* under a new text and a fragment whose translation failed
C13_Witness ==
    /\ pc = "translated" /\ original # <<>>
    /\ \E i \in DOMAIN Fragments :
          /\ Fragments[i].text # original[i].text
          /\ Fragments[i].formatting.runs # <<>>
    /\ \E j \in DOMAIN results : ~results[j].success

\* C30: state unchanged on translation failure. Whenever translate_content
\* returns no content (the provider is unknown or cannot be initialised, or
\* every fragment failed), no fragment has been modified: the content equals
\* its state before the call.
C30_UnchangedOnFailure ==
    (pc = "translated" /\ ret = "None") => content.text_content = original

\* translate_content has returned None after its calls to the service, on a
\* content with text to translate, every result being a failure
C30_Witness ==
    /\ pc = "translated" /\ ret = "None"
    /\ calls # <<>> /\ results # <<>>
    /\ \E i \in DOMAIN original : Strip(original[i].text) # <<>>
    /\ \A j \in DOMAIN results : ~results[j].success

\* translate_content has returned None without a call: no translator
C30_WitnessNoTranslator ==
    /\ pc = "translated" /\ ret = "None"
    /\ calls = <<>> /\ original # <<>>
    /\ ~initialize_translator(env)


(***************************************************************************)
(* A run: the main window (ui/main_window.py) starts TranslationWorker     *)
(* threads (ui/translation_worker.py) on its list of selected files and    *)
(* handles the signals they emit. A file is described by what becomes of   *)
(* it in translate_file.                                                   *)
(***************************************************************************)
MaxFiles == 2      \* files selected in the main window
MaxPages == 2      \* pages of a document written by save_as_pdf
MaxWords == 3      \* words of a line given to save_as_pdf
MaxWorkers == 2    \* workers started from the main window

\* what becomes of a file in translate_file: every step succeeds, parse_document
\* returns None, the parsing raises, translate_content returns None, the writer
\* returns None
FileKinds == {"ok", "parse_none", "parse_raises", "translate_none", "save_none"}

\* a worker whose loop starts at the second file
NewWorker_SkipFirst(files) ==
    [files |-> files, is_stopped |-> FALSE, step |-> "started", i |-> 1,
     total_files |-> 0, success_count |-> 0, file_path |-> "None",
     output_path |-> "None", stopped_at |-> 0 - 1, log |-> <<>>,
     files_at_start |-> files, processed |-> <<>>]

\* TranslationWorker.__init__. files is the list object of the main window;
\* files_at_start notes what it held, processed the files the loop has taken.
NewWorker(files) ==
    [files |-> files, is_stopped |-> FALSE, step |-> "started", i |-> 0,
     total_files |-> 0, success_count |-> 0, file_path |-> "None",
     output_path |-> "None", stopped_at |-> 0 - 1, log |-> <<>>,
     files_at_start |-> files, processed |-> <<>>]

\* an entry of a worker's log: what it did, on which file (0-based)
Event(ev, i) == [ev |-> ev, i |-> i]

InitRun ==
    /\ source = NoSource
    /\ content = NoContent
    /\ parse_log = NoLog
    /\ OutIdle
    /\ pc = "run"
    /\ TrIdle
    /\ WrIdle
    /\ ui \in { [start_enabled |-> TRUE, cancel_enabled |-> FALSE,
                 selected_files |-> fs, translation_worker |-> 0] :
                   fs \in SeqsUpTo(FileKinds, MaxFiles) }
    /\ workers = <<>>
    /\ inbox = <<>>

\* MainWindow.reset_ui_state
reset_ui_state(u) == [u EXCEPT !.start_enabled = TRUE, !.cancel_enabled = FALSE]

\* MainWindow.start_translation, on a click of the start button
StartTranslation ==
    /\ pc = "run" /\ ui.start_enabled
    /\ Len(workers) < MaxWorkers
    /\ IF ui.selected_files = <<>>
       THEN UNCHANGED <<ui, workers>>
       ELSE /\ workers' = Append(workers, NewWorker(ui.selected_files))
            /\ ui' = [ui EXCEPT !.start_enabled = FALSE, !.cancel_enabled = TRUE,
                                !.translation_worker = Len(workers) + 1]
    /\ UNCHANGED <<outVars, readVars, trVars, wrVars, inbox>>

\* a stop() that leaves the flag as it is
stop_FlagUnset(worker) ==
    [worker EXCEPT !.stopped_at = IF worker.stopped_at >= 0 THEN worker.stopped_at
                                  ELSE Len(worker.log)]

\* TranslationWorker.stop; stopped_at notes how far the worker had got
stop(worker) ==
    [worker EXCEPT !.is_stopped = TRUE,
                   !.stopped_at = IF worker.is_stopped THEN worker.stopped_at
                                  ELSE Len(worker.log)]

\* MainWindow.cancel_translation, on a click of the cancel button
CancelTranslation ==
    /\ pc = "run" /\ ui.cancel_enabled
    /\ IF ui.translation_worker # 0
       THEN /\ workers' = [workers EXCEPT ![ui.translation_worker] =
                              stop(workers[ui.translation_worker])]
            /\ ui' = reset_ui_state(ui)
       ELSE UNCHANGED <<ui, workers>>
    /\ UNCHANGED <<outVars, readVars, trVars, wrVars, inbox>>

\* the main window handles the oldest signal waiting for it:
\* MainWindow.translation_finished resets the buttons,
\* MainWindow.file_translation_completed adds a line to the result list
HandleSignal ==
    /\ pc = "run" /\ inbox # <<>>
    /\ ui' = IF Head(inbox).signal = "translation_finished" THEN reset_ui_state(ui)
             ELSE ui
    /\ inbox' = Tail(inbox)
    /\ UNCHANGED <<outVars, readVars, trVars, wrVars, workers>>


\* the worker w with its fields changed, the other workers as they are
SetWorker(w, worker) == workers' = [workers EXCEPT ![w] = worker]

\* a signal with its two arguments in the other order
Signal_Swapped(w, signal, a, b) == [worker |-> w, signal |-> signal, a |-> b, b |-> a]

\* a signal emitted by worker w, queued for the main window
Signal(w, signal, a, b) == [worker |-> w, signal |-> signal, a |-> a, b |-> b]

\* the file worker w is at: file_path of the for statement
CurrentFile(w) == workers[w].file_path

\* run, lines 39-42: the thread starts
RunBegin(w) ==
    /\ pc = "run" /\ workers[w].step = "started"
    /\ SetWorker(w, [workers[w] EXCEPT !.total_files = Len(workers[w].files),
                                       !.success_count = 0, !.step = "loop"])
    /\ UNCHANGED <<outVars, readVars, trVars, wrVars, ui, inbox>>

\* run, lines 44-53: the next file is taken and the flag is read
RunCheck(w) ==
    /\ pc = "run" /\ workers[w].step = "loop"
    /\ LET me == workers[w]
       IN IF me.i >= Len(me.files)
          THEN SetWorker(w, [me EXCEPT !.step = "finish"])
          ELSE IF me.is_stopped
          THEN SetWorker(w, [me EXCEPT !.step = "finish",
                                       !.log = Append(me.log, Event("read_true", me.i))])
          ELSE IF me.total_files = 0
          THEN \* line 53 divides by total_files: the handler of lines 65-67
               \* logs the error and the loop goes on to the next file
               SetWorker(w, [me EXCEPT !.i = me.i + 1,
                                       !.file_path = me.files[me.i + 1],
                                       !.processed = Append(@, me.files[me.i + 1]),
                                       !.log = me.log \o <<Event("read_false", me.i),
                                                           Event("error", me.i)>>])
          ELSE SetWorker(w, [me EXCEPT !.step = "parse",
                                       !.file_path = me.files[me.i + 1],
                                       !.processed = Append(@, me.files[me.i + 1]),
                                       !.log = Append(me.log, Event("read_false", me.i))])
    /\ inbox' = IF /\ workers[w].i < Len(workers[w].files) /\ ~workers[w].is_stopped
                   /\ workers[w].total_files # 0
                THEN Append(inbox, Signal(w, "progress_updated",
                                          (workers[w].i * 100) \div workers[w].total_files,
                                          workers[w].i))
                ELSE inbox
    /\ UNCHANGED <<outVars, readVars, trVars, wrVars, ui>>

\* translate_file, lines 81-89: parse_document; None or an exception ends the file
FileParse(w) ==
    /\ pc = "run" /\ workers[w].step = "parse"
    /\ LET me == workers[w]
           failed == CurrentFile(w) \in {"parse_none", "parse_raises"}
       IN SetWorker(w, [me EXCEPT !.step = IF failed THEN "report" ELSE "translate",
                                  !.output_path = "None",
                                  !.log = Append(me.log, Event("parse", me.i))])
    /\ UNCHANGED <<outVars, readVars, trVars, wrVars, ui, inbox>>

\* translate_file, lines 92-103: translate_content; None ends the file
FileTranslate(w) ==
    /\ pc = "run" /\ workers[w].step = "translate"
    /\ LET me == workers[w]
           failed == CurrentFile(w) = "translate_none"
       IN SetWorker(w, [me EXCEPT !.step = IF failed THEN "report" ELSE "save",
                                  !.log = Append(me.log, Event("translate", me.i))])
    /\ UNCHANGED <<outVars, readVars, trVars, wrVars, ui, inbox>>

\* translate_file, lines 106-113: save_translated_document
FileSave(w) ==
    /\ pc = "run" /\ workers[w].step = "save"
    /\ LET me == workers[w]
       IN SetWorker(w, [me EXCEPT !.step = "report",
                                  !.output_path = IF CurrentFile(w) = "save_none"
                                                  THEN "None" ELSE "path",
                                  !.log = Append(me.log, Event("save", me.i))])
    /\ UNCHANGED <<outVars, readVars, trVars, wrVars, ui, inbox>>

\* a failed file ends the loop
RunReport_AbortOnFailure(w) ==
    /\ pc = "run" /\ workers[w].step = "report"
    /\ LET me == workers[w]
       IN IF me.output_path # "None"
          THEN /\ SetWorker(w, [me EXCEPT !.success_count = me.success_count + 1,
                                          !.i = me.i + 1, !.step = "loop",
                                          !.log = Append(me.log, Event("file_completed", me.i))])
               /\ inbox' = Append(inbox, Signal(w, "file_completed", me.i, me.output_path))
          ELSE /\ SetWorker(w, [me EXCEPT !.i = me.i + 1, !.step = "finish",
                                          !.log = Append(me.log, Event("failed", me.i))])
               /\ UNCHANGED inbox
    /\ UNCHANGED <<outVars, readVars, trVars, wrVars, ui>>

\* run, lines 58-63: the file's outcome is counted and reported. translate_file
\* catches every Exception, so the handler of lines 65-67 is not entered
RunReport(w) ==
    /\ pc = "run" /\ workers[w].step = "report"
    /\ LET me == workers[w]
       IN IF me.output_path # "None"
          THEN /\ SetWorker(w, [me EXCEPT !.success_count = me.success_count + 1,
                                          !.i = me.i + 1, !.step = "loop",
                                          !.log = Append(me.log, Event("file_completed", me.i))])
               /\ inbox' = Append(inbox, Signal(w, "file_completed", me.i, me.output_path))
          ELSE /\ SetWorker(w, [me EXCEPT !.i = me.i + 1, !.step = "loop",
                                          !.log = Append(me.log, Event("failed", me.i))])
               /\ UNCHANGED inbox
    /\ UNCHANGED <<outVars, readVars, trVars, wrVars, ui>>

\* a thread that ends without a word
RunFinish_Silent(w) ==
    /\ pc = "run" /\ workers[w].step = "finish"
    /\ SetWorker(w, [workers[w] EXCEPT !.step = "done"])
    /\ UNCHANGED <<outVars, readVars, trVars, wrVars, ui, inbox>>

\* run, lines 70-71: progress_updated(100, ""), then
\* translation_finished(success_count, total_files); the thread ends
RunFinish(w) ==
    /\ pc = "run" /\ workers[w].step = "finish"
    /\ SetWorker(w, [workers[w] EXCEPT !.step = "done"])
    /\ inbox' = inbox \o << Signal(w, "progress_updated", 100, 0 - 1),
                            Signal(w, "translation_finished",
                                   workers[w].success_count, workers[w].total_files) >>
    /\ UNCHANGED <<outVars, readVars, trVars, wrVars, ui>>

NextRun ==
    \/ StartTranslation
    \/ CancelTranslation
    \/ HandleSignal
    \/ \E w \in DOMAIN workers : RunBegin(w)
    \/ \E w \in DOMAIN workers : RunCheck(w)
    \/ \E w \in DOMAIN workers : FileParse(w)
    \/ \E w \in DOMAIN workers : FileTranslate(w)
    \/ \E w \in DOMAIN workers : FileSave(w)
    \/ \E w \in DOMAIN workers : RunReport(w)
    \/ \E w \in DOMAIN workers : RunFinish(w)

SpecRun == InitRun /\ [][NextRun]_vars


(***************************************************************************)
(* One worker: a TranslationWorker built on a list of files runs, while    *)
(* its stop() may be called at any moment from the main thread.            *)
(***************************************************************************)
InitWorker ==
    /\ source = NoSource
    /\ content = NoContent
    /\ parse_log = NoLog
    /\ OutIdle
    /\ pc = "run"
    /\ TrIdle
    /\ WrIdle
    /\ \E fs \in SeqsUpTo(FileKinds, MaxFiles) :
          /\ ui = [start_enabled |-> FALSE, cancel_enabled |-> TRUE,
                   selected_files |-> fs, translation_worker |-> 1]
          /\ workers = <<NewWorker(fs)>>
    /\ inbox = <<>>

\* worker.stop(), called from the main thread
StopWorker ==
    /\ pc = "run"
    /\ \E w \in DOMAIN workers : SetWorker(w, stop(workers[w]))
    /\ UNCHANGED <<outVars, readVars, trVars, wrVars, ui, inbox>>

NextWorker ==
    \/ StopWorker
    \/ \E w \in DOMAIN workers : RunBegin(w)
    \/ \E w \in DOMAIN workers : RunCheck(w)
    \/ \E w \in DOMAIN workers : FileParse(w)
    \/ \E w \in DOMAIN workers : FileTranslate(w)
    \/ \E w \in DOMAIN workers : FileSave(w)
    \/ \E w \in DOMAIN workers : RunReport(w)
    \/ \E w \in DOMAIN workers : RunFinish(w)

SpecWorker == InitWorker /\ [][NextWorker]_vars

\* the list self.selected_files, which every worker holds as self.files,
\* becomes fs
ListBecomes(fs) ==
    /\ ui' = [ui EXCEPT !.selected_files = fs]
    /\ workers' = [w \in DOMAIN workers |-> [workers[w] EXCEPT !.files = fs]]

\* MainWindow.add_files with one more file, from the dialog or dropped
AddFiles ==
    /\ pc = "run" /\ Len(ui.selected_files) < MaxFiles
    /\ \E f \in FileKinds : ListBecomes(Append(ui.selected_files, f))
    /\ UNCHANGED <<outVars, readVars, trVars, wrVars, inbox>>

\* MainWindow.clear_files
ClearFiles ==
    /\ pc = "run" /\ ui.selected_files # <<>>
    /\ ListBecomes(<<>>)
    /\ UNCHANGED <<outVars, readVars, trVars, wrVars, inbox>>

\* a run started on a list that is not empty
InitList ==
    /\ InitWorker
    /\ ui.selected_files # <<>>

\* one worker runs while files are added to the list or the list is cleared
NextList ==
    \/ AddFiles
    \/ ClearFiles
    \/ \E w \in DOMAIN workers : RunBegin(w)
    \/ \E w \in DOMAIN workers : RunCheck(w)
    \/ \E w \in DOMAIN workers : FileParse(w)
    \/ \E w \in DOMAIN workers : FileTranslate(w)
    \/ \E w \in DOMAIN workers : FileSave(w)
    \/ \E w \in DOMAIN workers : RunReport(w)
    \/ \E w \in DOMAIN workers : RunFinish(w)

SpecList == InitList /\ [][NextList]_vars

\* a step of the worker thread
WorkerStep ==
    \E w \in DOMAIN workers :
        \/ RunBegin(w) \/ RunCheck(w) \/ FileParse(w) \/ FileTranslate(w)
        \/ FileSave(w) \/ RunReport(w) \/ RunFinish(w)

\* the started thread keeps running: every call it makes returns
SpecWorkerLive == InitWorker /\ [][NextWorker]_vars /\ WF_vars(WorkerStep)


(***************************************************************************)
(* Claims about a run.                                                     *)
(***************************************************************************)
\* what a worker does on a file once the flag has been read
FileWork == {"parse", "translate", "save", "file_completed", "failed"}

\* stop() has been called on the worker
StopRequested(worker) == worker.stopped_at >= 0

\* the flag was read as unset for file i at or before position q of the log
BegunBy(worker, i, q) ==
    \E r \in 1..q : r <= Len(worker.log) /\ worker.log[r] = Event("read_false", i)

\* C14: cooperative cancellation. The flag is read once per file, right before
\* that file's work starts; after stop() no file that had not begun is parsed,
\* translated or written; and the file in progress at stop() runs to the end
\* and, when it succeeds, is counted and reported through file_completed.
C14_CooperativeCancellation ==
    \A w \in DOMAIN workers :
        LET me == workers[w]
            L == me.log
        IN /\ \A p \in DOMAIN L, q \in DOMAIN L :
                 (/\ L[p].ev \in {"read_false", "read_true"}
                  /\ L[q].ev \in {"read_false", "read_true"}
                  /\ L[p].i = L[q].i) => p = q
           /\ \A p \in DOMAIN L :
                 L[p].ev = "parse" => p > 1 /\ L[p - 1] = Event("read_false", L[p].i)
           /\ StopRequested(me) =>
                 \A p \in DOMAIN L :
                    p > me.stopped_at =>
                       /\ L[p].ev # "read_false"
                       /\ L[p].ev \in FileWork => BegunBy(me, L[p].i, me.stopped_at)
           /\ me.step = "done" =>
                 \A q \in DOMAIN L :
                    L[q].ev = "read_false" =>
                       \E p \in DOMAIN L :
                          /\ p > q /\ L[p].i = L[q].i
                          /\ L[p].ev = IF me.files[L[q].i + 1] = "ok"
                                       THEN "file_completed" ELSE "failed"

\* stop() came while the first file was being worked on; that file was
\* completed and reported, and the second file was not begun
C14_Witness ==
    \E w \in DOMAIN workers :
        LET me == workers[w]
        IN /\ me.step = "done" /\ Len(me.files) >= 2
           /\ StopRequested(me) /\ me.is_stopped
           /\ me.stopped_at >= 1 /\ me.log[me.stopped_at].ev = "parse"
           /\ \E p \in DOMAIN me.log : me.log[p] = Event("file_completed", 0)
           /\ \E p \in DOMAIN me.log : me.log[p] = Event("read_true", 1)
           /\ me.success_count = 1


\* the workers that are at work on a file
RunningWorkers ==
    { w \in DOMAIN workers : workers[w].step \in {"parse", "translate", "save", "report"} }

\* C15: single worker. At every moment at most one TranslationWorker is
\* processing files: the main window cannot start a run while a worker started
\* earlier is still running, a cancelled worker that is finishing its file in
\* progress included.
C15_SingleWorker == Cardinality(RunningWorkers) <= 1


\* the file_completed signals of worker w waiting in the inbox, oldest first
RECURSIVE CompletedSignals(_, _)
CompletedSignals(w, q) ==
    IF q = <<>> THEN <<>>
    ELSE (IF Head(q).worker = w /\ Head(q).signal = "file_completed"
          THEN <<Head(q).a>> ELSE <<>>) \o CompletedSignals(w, Tail(q))

Increasing(xs) == \A p \in DOMAIN xs, q \in DOMAIN xs : p < q => xs[p] < xs[q]

Logged(worker, ev, i) == \E p \in DOMAIN worker.log : worker.log[p] = Event(ev, i)

FinishedSignals(w) ==
    { q \in DOMAIN inbox :
        inbox[q].worker = w /\ inbox[q].signal = "translation_finished" }

\* the files of worker w for which the writer returned an output path
WrittenFiles(w) ==
    { k \in 0..(Len(workers[w].files) - 1) :
        Logged(workers[w], "save", k) /\ workers[w].files[k + 1] # "save_none" }

SignalsOf(w) == SelectSeq(inbox, LAMBDA m : m.worker = w)

\* worker w has emitted translation_finished exactly once, as its last signal,
\* and the signal before it is a progress of 100
FinishedOnce(w) ==
    /\ workers[w].step = "done"
    /\ Cardinality(FinishedSignals(w)) = 1
    /\ Len(SignalsOf(w)) >= 2
    /\ SignalsOf(w)[Len(SignalsOf(w))].signal = "translation_finished"
    /\ SignalsOf(w)[Len(SignalsOf(w)) - 1].signal = "progress_updated"
    /\ SignalsOf(w)[Len(SignalsOf(w)) - 1].a = 100

\* C27: run completion. A started run eventually emits translation_finished,
\* exactly once and after a final progress of 100, whether its files succeed,
\* fail or raise and whether or not the run is cancelled, as long as every
\* call the thread makes returns.
C27_RunCompletion == <>[](\A w \in DOMAIN workers : FinishedOnce(w))

\* a cancelled run with a failed file has emitted translation_finished
C27_Witness ==
    \E w \in DOMAIN workers :
        /\ FinishedOnce(w)
        /\ workers[w].is_stopped
        /\ Len(workers[w].files) = 2
        /\ workers[w].files[1] = "parse_raises"
        /\ Logged(workers[w], "failed", 0)
        /\ ~Logged(workers[w], "parse", 1)


\* s is the beginning of t
IsPrefix(s, t) == Len(s) <= Len(t) /\ SubSeq(t, 1, Len(s)) = s

\* C28: file list snapshot. The files a run processes are those selected when
\* it was started, in that order, whatever add_files and clear_files do while
\* the worker runs: what it has processed is a beginning of that list, a run
\* that ends without being stopped has processed all of it, and the number of
\* files processed is the total it reports.
C28_FileListSnapshot ==
    \A w \in DOMAIN workers :
        /\ IsPrefix(workers[w].processed, workers[w].files_at_start)
        /\ (workers[w].step = "done" /\ ~workers[w].is_stopped) =>
              /\ workers[w].processed = workers[w].files_at_start
              /\ \A q \in FinishedSignals(w) : inbox[q].b = Len(workers[w].processed)

(***************************************************************************)
(* Claims about one file going through translate_file.                     *)
(***************************************************************************)
\* some fragment was translated with success
SomeTranslated == \E i \in DOMAIN results : results[i].success

\* C19: file-level success criterion. An output is written for a file only if
\* at least one of its fragments was translated successfully; when none was,
\* translate_content returns no content and nothing is written for the file.
C19_FileSuccessCriterion ==
    /\ (pc = "translated" /\ ~SomeTranslated) => ret = "None"
    /\ (pc \in {"saved", "reread"} /\ ret # "pending" /\ saved = "path") => SomeTranslated

(***************************************************************************)
(* Naming the output files of one run: for each file of the run in turn,   *)
(* save_translated_document resolves the output path from the settings,    *)
(* the file's path and the clock (ui/translation_worker.py:120-205).       *)
(* File names are sequences of characters; a path is a directory, a base   *)
(* name and an extension.                                                  *)
(***************************************************************************)
\* the variables of the naming rule, lines 189-192: the original name, the
\* language code, the date and the time. Their Korean words are written in
\* Latin letters here; no other text of the model holds a bracket.
TokenName == <<"[", "n", "a", "m", "e", "]">>
TokenLang == <<"[", "l", "a", "n", "g", "]">>
TokenDate == <<"[", "d", "a", "t", "e", "]">>
TokenTime == <<"[", "t", "i", "m", "e", "]">>

\* s begins with p
HasPrefix(s, p) == Len(s) >= Len(p) /\ SubSeq(s, 1, Len(p)) = p

\* str.replace(old, new): every non-overlapping occurrence, from the left
RECURSIVE Replace(_, _, _)
Replace(s, old, new) ==
    IF Len(s) < Len(old) THEN s
    ELSE IF HasPrefix(s, old)
    THEN new \o Replace(SubSeq(s, Len(old) + 1, Len(s)), old, new)
    ELSE <<Head(s)>> \o Replace(Tail(s), old, new)

\* generate_output_filename, lines 172-179
\* (the names of the languages are written in English here)
lang_codes ==
    [l \in {"Korean", "English", "Japanese", "Chinese", "Spanish", "French"} |->
        CASE l = "Korean" -> <<"k", "o">>
          [] l = "English" -> <<"e", "n">>
          [] l = "Japanese" -> <<"j", "a">>
          [] l = "Chinese" -> <<"z", "h">>
          [] l = "Spanish" -> <<"e", "s">>
          [] l = "French" -> <<"f", "r">>]

\* the characters of an extension
ExtChars(ext) ==
    CASE ext = ".pdf" -> <<".", "p", "d", "f">>
      [] ext = ".xlsx" -> <<".", "x", "l", "s", "x">>
      [] ext = ".docx" -> <<".", "d", "o", "c", "x">>
      [] ext = ".pptx" -> <<".", "p", "p", "t", "x">>

\* generate_output_filename, lines 195-203
OutputExtension(output_format, original_ext) ==
    CASE output_format = "pdf" -> ".pdf"
      [] output_format = "excel" -> ".xlsx"
      [] output_format = "word" -> ".docx"
      [] OTHER -> original_ext

\* generate_output_filename, lines 187-192: the four replacements, one after another
Substituted(naming_rule, original_name, target_lang_code, current_time) ==
    Replace(Replace(Replace(Replace(naming_rule, TokenName, original_name),
                            TokenLang, target_lang_code),
                    TokenDate, current_time.date),
            TokenTime, current_time.time)

\* TranslationWorker.generate_output_filename
generate_output_filename(settings, original_path, current_time) ==
    LET original_name == original_path.name
        original_ext == original_path.ext
        target_lang_code == Get(lang_codes, settings.target_language,
                                <<"u", "n", "k", "n", "o", "w", "n">>)
        filename == Substituted(settings.naming_rule, original_name, target_lang_code,
                                current_time)
        extension == OutputExtension(settings.output_format, original_ext)
    IN filename \o ExtChars(extension)

\* save_translated_document, lines 124-159: the path the writer is given.
\* os.path.splitext(output_path)[0] + '.pdf' puts back the extension the
\* generated name already ends with.
OutputPath(settings, original_path, current_time) ==
    [dir |-> settings.output_directory,
     file |-> generate_output_filename(settings, original_path, current_time)]

\* the readings of datetime.now() within a run, in order
Clock ==
    << [date |-> <<"2", "0", "2", "4", "0", "1", "0", "2">>,
        time |-> <<"0", "9", "3", "0", "0", "0">>],
       [date |-> <<"2", "0", "2", "4", "0", "1", "0", "2">>,
        time |-> <<"0", "9", "3", "0", "0", "1">>] >>

\* naming rules typed into the naming_line_edit
NamingRules ==
    { TokenName \o <<"_", "t", "r", "a", "n", "s", "l", "a", "t", "e", "d", "_">>
        \o TokenLang,
      TokenName \o <<"_">> \o TokenDate \o <<"_">> \o TokenTime,
      TokenName \o TokenName,
      <<"o", "u", "t">> }

\* base names of the selected files
BaseNames ==
    { <<"r", "e", "p", "o", "r", "t">>, <<"a">>, TokenDate }

\* the files the file dialog can add
InputPaths ==
    { [dir |-> d, name |-> n, ext |-> x] :
        d \in {"in1", "in2"}, n \in BaseNames, x \in {".docx", ".pptx"} }

\* the settings get_translation_settings hands to the worker
NameSettings ==
    { [target_language |-> l, naming_rule |-> r, output_format |-> f,
       output_directory |-> "out"] :
        l \in {"English", "Korean"}, r \in NamingRules,
        f \in {"original", "pdf", "excel", "word"} }

\* add_files keeps a path once
NoRepeat(files) == \A i \in DOMAIN files : \A j \in DOMAIN files : files[i] = files[j] => i = j

InitName ==
    /\ TrIdle
    /\ WrIdle
    /\ RunIdle
    /\ source = NoSource
    /\ content = NoContent
    /\ parse_log = NoLog
    /\ pc = "naming"
    /\ api_calls = <<>>
    /\ canvas = <<>>
    /\ \E n \in 1..MaxFiles :
         \E files \in [1..n -> InputPaths], settings \in NameSettings :
            /\ NoRepeat(files)
            /\ naming = [settings |-> settings, files |-> files, i |-> 1, tick |-> 1,
                         outputs |-> <<>>]

\* save_translated_document for the next file of the run, at a reading of the
\* clock not before the last one
NameFile ==
    /\ pc = "naming"
    /\ naming.i <= Len(naming.files)
    /\ \E t \in naming.tick..Len(Clock) :
          naming' = [naming EXCEPT
                        !.outputs = Append(@, OutputPath(naming.settings,
                                                         naming.files[naming.i],
                                                         Clock[t])),
                        !.tick = t,
                        !.i = @ + 1]
    /\ UNCHANGED <<readVars, trVars, wrVars, runVars, api_calls, canvas>>

NextName == NameFile

SpecName == InitName /\ [][NextName]_vars

(***************************************************************************)
(* Claims about the names of the output files.                             *)
(***************************************************************************)
\* the naming rule with each variable standing in it replaced by its value
RECURSIVE Expanded(_, _, _, _)
Expanded(rule, name, code, now) ==
    IF rule = <<>> THEN <<>>
    ELSE IF HasPrefix(rule, TokenName)
    THEN name \o Expanded(SubSeq(rule, Len(TokenName) + 1, Len(rule)), name, code, now)
    ELSE IF HasPrefix(rule, TokenLang)
    THEN code \o Expanded(SubSeq(rule, Len(TokenLang) + 1, Len(rule)), name, code, now)
    ELSE IF HasPrefix(rule, TokenDate)
    THEN now.date \o Expanded(SubSeq(rule, Len(TokenDate) + 1, Len(rule)), name, code, now)
    ELSE IF HasPrefix(rule, TokenTime)
    THEN now.time \o Expanded(SubSeq(rule, Len(TokenTime) + 1, Len(rule)), name, code, now)
    ELSE <<Head(rule)>> \o Expanded(Tail(rule), name, code, now)

\* the file name the naming rule stands for, for the k-th file of the run
ExpectedName(k) ==
    \E t \in 1..Len(Clock) :
        naming.outputs[k].file =
            Expanded(naming.settings.naming_rule, naming.files[k].name,
                     lang_codes[naming.settings.target_language], Clock[t])
            \o ExtChars(OutputExtension(naming.settings.output_format,
                                        naming.files[k].ext))

\* C22: the generated file name is the naming rule with every variable (the
\* original name, the language code, the date, the time) replaced by the base name, the language code,
\* the date and the time, followed by the extension of the output format.
C22_FilenameTemplating ==
    pc = "naming" => \A k \in 1..Len(naming.outputs) : ExpectedName(k)

\* a base name that holds none of the variables is named as the rule says
C22_PlainNames ==
    pc = "naming" =>
        \A k \in 1..Len(naming.outputs) :
            (\A j \in 1..Len(naming.files[k].name) : naming.files[k].name[j] # "[")
                => ExpectedName(k)

\* C29: distinct outputs within a run. Two different input files of one run
\* never resolve to the same output path (output directory and generated
\* filename), so no output of the run is overwritten by a later file.
C29_DistinctOutputs ==
    pc = "naming" =>
        \A j \in 1..Len(naming.outputs) : \A k \in 1..Len(naming.outputs) :
            naming.files[j] # naming.files[k] => naming.outputs[j] # naming.outputs[k]

\* input files of different base names, under the default rule and the
\* original format, get different output paths
C29_DistinctBaseNames ==
    (/\ pc = "naming"
     /\ HasPrefix(naming.settings.naming_rule, TokenName \o <<"_", "t">>)
     /\ naming.settings.output_format = "original") =>
        \A j \in 1..Len(naming.outputs) : \A k \in 1..Len(naming.outputs) :
            naming.files[j].name # naming.files[k].name
                => naming.outputs[j] # naming.outputs[k]

\* the example of the specification: report, en, any output format
C22_Example ==
    \A k \in 1..Len(naming.outputs) :
        (/\ pc = "naming"
         /\ naming.files[k].name = <<"r", "e", "p", "o", "r", "t">>
         /\ naming.settings.target_language = "English"
         /\ HasPrefix(naming.settings.naming_rule, TokenName \o <<"_", "t">>)) =>
            naming.outputs[k].file =
                <<"r", "e", "p", "o", "r", "t", "_", "t", "r", "a", "n", "s", "l", "a",
                  "t", "e", "d", "_", "e", "n">>
                \o ExtChars(OutputExtension(naming.settings.output_format,
                                            naming.files[k].ext))

(***************************************************************************)
(* save_as_pdf (document_parser.py:517-591): the lines of the fragments    *)
(* are drawn one under the other, a long line broken into several. The     *)
(* fragments, their lines and the words of a line come as the writer       *)
(* reaches them. Lengths are in 1/100 point; a word is its width.          *)
(***************************************************************************)
\* width, height = A4
PageWidth == 59528
PageHeight == 84189
line_height == 2000
margin == 5000
BlockGap == 1000

\* y_position = height - 50
TopOfPage == PageHeight - 5000

\* max_width = width - 2 * margin
max_width == PageWidth - 2 * margin

\* c.stringWidth(' ', font_name, 12)
SpaceWidth == 334

\* the widths of the words of a line: no word (''), a short one, one of half a
\* line, one wider than the page
WordWidths == {0, 10000, 30000, 60000}

RECURSIVE SumOf(_)
SumOf(ws) == IF ws = <<>> THEN 0 ELSE Head(ws) + SumOf(Tail(ws))

\* c.stringWidth(line, font_name, 12) of a line made of the words ws
stringWidth(ws) == SumOf(ws) + SpaceWidth * (IF ws = <<>> THEN 0 ELSE Len(ws) - 1)

\* the test before a line that never starts a page
PageCheck_Never(cv) == cv

\* if y_position < margin: c.showPage(); y_position = height - 50
PageCheck(cv) ==
    IF cv.y_position < margin
    THEN [cv EXCEPT !.pages = @ + 1, !.y_position = TopOfPage]
    ELSE cv

\* c.drawString(margin, y_position, ...); y_position -= line_height.
\* before is the position the line started from, ahead of any page test.
DrawString(cv, before) ==
    [cv EXCEPT !.drawn = [at |-> cv.y_position, before |-> before,
                          page |-> cv.pages],
               !.y_position = @ - line_height]

\* c = canvas.Canvas(output_path, pagesize=A4), lines 540-544
NewCanvas ==
    [y_position |-> TopOfPage, pages |-> 1, step |-> "line", lines |-> 0,
     words |-> <<>>, current_line |-> 0, drawn |-> <<>>, started_at |-> 0,
     started_page |-> 0]

InitPdf ==
    /\ TrIdle
    /\ WrIdle
    /\ RunIdle
    /\ source = NoSource
    /\ content = NoContent
    /\ parse_log = NoLog
    /\ pc = "pdf"
    /\ naming = <<>>
    /\ api_calls = <<>>
    /\ canvas = NewCanvas

\* lines 551-556 and 580-582: the next line of the fragment, one that fits the
\* page width
PdfShortLine ==
    /\ pc = "pdf" /\ canvas.step = "line"
    /\ PageCheck(canvas).pages <= MaxPages
    /\ \E n \in 0..MaxWords : \E ws \in [1..n -> WordWidths] :
          /\ stringWidth(ws) <= max_width
          /\ canvas' = [DrawString(PageCheck(canvas), canvas.y_position)
                           EXCEPT !.lines = 1]
    /\ UNCHANGED <<readVars, trVars, wrVars, runVars, naming, api_calls>>

\* lines 551-562: the next line of the fragment, one wider than the page
PdfLongLine ==
    /\ pc = "pdf" /\ canvas.step = "line"
    /\ PageCheck(canvas).pages <= MaxPages
    /\ \E n \in 1..MaxWords : \E ws \in [1..n -> WordWidths] :
          /\ stringWidth(ws) > max_width
          /\ canvas' = [PageCheck(canvas) EXCEPT !.step = "words", !.words = ws,
                                                 !.current_line = 0, !.lines = 1,
                                                 !.started_at = canvas.y_position,
                                                 !.started_page = canvas.pages]
    /\ UNCHANGED <<readVars, trVars, wrVars, runVars, naming, api_calls>>

\* lines 564-574: one word of the long line
PdfWord ==
    /\ pc = "pdf" /\ canvas.step = "words" /\ canvas.words # <<>>
    /\ LET word == Head(canvas.words)
           test_line == IF canvas.current_line > 0
                        THEN canvas.current_line + SpaceWidth + word
                        ELSE word
           rest == [canvas EXCEPT !.words = Tail(@)]
       IN IF test_line <= max_width
          THEN canvas' = [rest EXCEPT !.current_line = test_line]
          ELSE IF canvas.current_line > 0
          THEN /\ PageCheck(DrawString(rest, canvas.y_position)).pages <= MaxPages
               /\ canvas' = [PageCheck(DrawString(rest, canvas.y_position))
                                EXCEPT !.current_line = word]
          ELSE canvas' = [rest EXCEPT !.current_line = word]
    /\ UNCHANGED <<readVars, trVars, wrVars, runVars, naming, api_calls>>

\* lines 576-578: what is left of the long line
PdfLastPart ==
    /\ pc = "pdf" /\ canvas.step = "words" /\ canvas.words = <<>>
    /\ canvas' = [(IF canvas.current_line > 0
                   THEN DrawString(canvas, canvas.y_position) ELSE canvas)
                     EXCEPT !.step = "line", !.current_line = 0]
    /\ UNCHANGED <<readVars, trVars, wrVars, runVars, naming, api_calls>>

\* line 584: the fragment has no more lines
PdfBlockEnd ==
    /\ pc = "pdf" /\ canvas.step = "line" /\ canvas.lines > 0
    /\ canvas' = [canvas EXCEPT !.y_position = @ - BlockGap, !.lines = 0]
    /\ UNCHANGED <<readVars, trVars, wrVars, runVars, naming, api_calls>>

\* lines 586-587: c.save(), after the last fragment
PdfSave ==
    /\ pc = "pdf" /\ canvas.step = "line" /\ canvas.lines = 0
    /\ pc' = "pdf_saved"
    /\ UNCHANGED <<source, content, parse_log, trVars, wrVars, runVars, outVars>>

NextPdf ==
    \/ PdfShortLine
    \/ PdfLongLine
    \/ PdfWord
    \/ PdfLastPart
    \/ PdfBlockEnd
    \/ PdfSave

SpecPdf == InitPdf /\ [][NextPdf]_vars

(***************************************************************************)
(* Claims about the pages of save_as_pdf.                                  *)
(***************************************************************************)
\* C26: every line save_as_pdf draws stands at a height y with
\* 50 <= y <= page height - 50; a line whose position would be below the bottom
\* margin is drawn at the top of a new page instead, for any fragments, lines
\* and wrapped lines.
C26_PaginationInvariant ==
    (pc \in {"pdf", "pdf_saved"} /\ canvas.drawn # <<>>) =>
        /\ margin <= canvas.drawn.at
        /\ canvas.drawn.at <= PageHeight - 5000
        /\ canvas.drawn.before < margin =>
              /\ canvas.drawn.at = TopOfPage
              /\ canvas.drawn.page > 1
        /\ canvas.drawn.before >= margin => canvas.drawn.at = canvas.drawn.before

\* a line that would have stood below the bottom margin was drawn on the
\* second page
C26_Witness ==
    /\ pc = "pdf" /\ canvas.drawn # <<>>
    /\ canvas.drawn.before < margin
    /\ canvas.drawn.page = 2
    /\ canvas.drawn.at = TopOfPage

\* the last part of a wrapped line was drawn as the lowest line of a page
C26_WitnessWrapped ==
    /\ pc = "pdf" /\ canvas.drawn # <<>>
    /\ canvas.step = "line" /\ canvas.started_at > canvas.drawn.at
    /\ canvas.drawn.at < margin + line_height

====
